---------------------------- MODULE Spec2Model ----------------------------
(***************************************************************************)
(* Model of the mTLS policy resolution engine of kiali:                    *)
(*   util/mtls/status.go   MtlsStatus / TlsStatus and their methods        *)
(*   kubernetes/istio.go   the PeerAuthentication / DestinationRule        *)
(*                         helpers those methods call                      *)
(*                                                                         *)
(* Spec       OverallMtlsStatus executed frame by frame (the recursion     *)
(*            OverallMtlsStatus -> inheritedOverallStatus ->               *)
(*            OverallMtlsStatus) on arbitrary TlsStatus arguments.         *)
(* LiveSpec   Spec with weak fairness of the executing goroutine.          *)
(* ResolveSpec  NamespaceMtlsStatus and MeshMtlsStatus computed from the   *)
(*            namespace's and the mesh's PeerAuthentication and            *)
(*            DestinationRule, then OverallMtlsStatus on their results.    *)
(* WorkloadSpec WorkloadMtlsStatus on ordered lists of PeerAuthentications *)
(*            with DestinationRules and Services of the namespace.         *)
(* PermissiveSpec WorkloadMtlsStatus decided by a PERMISSIVE policy, on     *)
(*            ordered lists of DestinationRules and Services.              *)
(* ScopeSpec  NamespaceMtlsStatus, MeshMtlsStatus and OverallMtlsStatus on *)
(*            ordered lists of PeerAuthentications and DestinationRules.   *)
(* DomainSpec the four resolution methods in turn on one receiver.         *)
(*                                                                         *)
(* and of the host index of kubernetes/istio.go:                           *)
(* HostsSpec  NewKubeServiceHosts, then HasHost / IsValidForNamespace.     *)
(* AnnotationSpec the same calls on one service, over the values of its   *)
(*            exportTo annotation and the mesh defaults.                   *)
(*                                                                         *)
(* and of its stateless helpers:                                           *)
(* ExportSpec IsExportedTo on export lists.                                *)
(* PortSpec   MatchPortNameRule and mapPortToVirtualServiceProtocol.       *)
(***************************************************************************)
EXTENDS Naturals, Sequences, FiniteSets, TLC

VARIABLES
    conf,           \* *config.Config: the fields the engine reads
    namespace,      \* the namespace argument of the calls
    nsM,            \* the MtlsStatus built from the namespace's policies
    meshM,          \* the MtlsStatus built from the mesh-wide policies
    m,              \* the MtlsStatus receiver of OverallMtlsStatus / WorkloadMtlsStatus
    nsStatus,       \* TlsStatus: first argument of OverallMtlsStatus
    meshStatus,     \* TlsStatus: second argument of OverallMtlsStatus
    stack,          \* call stack: frames of OverallMtlsStatus / inheritedOverallStatus
    ret,            \* value returned by the frame popped last ("none" before)
    inheritedCalls, \* number of entries into inheritedOverallStatus
    pc,             \* position of the caller
    result,         \* the status returned to the caller ("none" before)
    services,       \* []core_v1.Service handed to NewKubeServiceHosts
    defaultExportTo,\* the mesh-wide DefaultServiceExportTo handed to it
    hosts,          \* the KubeServiceHosts it returned
    query,          \* the last lookup made on hosts and its answer
    exportList,     \* IsExportedTo: the exportTo argument
    resourceNs,     \* IsExportedTo: the resourceNamespace argument
    viewerNs,       \* IsExportedTo: the viewerNamespace argument
    exported,       \* IsExportedTo: its result
    portName,       \* MatchPortNameRule: the port's name, a sequence of characters
    protocol,       \* MatchPortNameRule / mapPortToVirtualServiceProtocol: the protocol
    valid,          \* MatchPortNameRule: its result
    vsProtocol      \* mapPortToVirtualServiceProtocol: its result ("none" before)

vars == <<conf, namespace, nsM, meshM, m, nsStatus, meshStatus, stack, ret,
          inheritedCalls, pc, result, services, defaultExportTo, hosts, query,
          exportList, resourceNs, viewerNs, exported,
          portName, protocol, valid, vsProtocol>>

(* what the caller supplies; no method writes to it *)
ctx == <<conf, namespace, nsM, meshM, m>>

(* the host index and what it was built from; no MtlsStatus method touches it *)
idx == <<services, defaultExportTo, hosts, query>>

(* the arguments and results of the stateless helpers IsExportedTo,          *)
(* MatchPortNameRule and mapPortToVirtualServiceProtocol                     *)
leaf == <<exportList, resourceNs, viewerNs, exported,
          portName, protocol, valid, vsProtocol>>

-----------------------------------------------------------------------------
(* status.go constants *)
MTLSEnabled          == "MTLS_ENABLED"
MTLSPartiallyEnabled == "MTLS_PARTIALLY_ENABLED"
MTLSNotEnabled       == "MTLS_NOT_ENABLED"
MTLSDisabled         == "MTLS_DISABLED"

Statuses == {MTLSEnabled, MTLSPartiallyEnabled, MTLSNotEnabled, MTLSDisabled}

(* The strings Mode.String() yields for the two protobuf enums, and "" for *)
(* an absent Mtls / TrafficPolicy.Tls block.                               *)
PAModes == {"UNSET", "DISABLE", "PERMISSIVE", "STRICT"}
DRModes == {"DISABLE", "SIMPLE", "MUTUAL", "ISTIO_MUTUAL"}
PAStatusValues == {""} \cup PAModes
DRStatusValues == {""} \cup DRModes

(* type TlsStatus struct; ZeroTls is the Go zero value TlsStatus{} *)
TlsStatus(dr, pa, overall) ==
    [DestinationRuleStatus |-> dr, PeerAuthenticationStatus |-> pa, OverallStatus |-> overall]

ZeroTls == TlsStatus("", "", "")

TlsStatusValues ==
    [DestinationRuleStatus : DRStatusValues,
     PeerAuthenticationStatus : PAStatusValues,
     OverallStatus : {""} \cup Statuses]

(* type MtlsStatus struct *)
MtlsStatus(allow, auto, drs, labels, pas, svcs) ==
    [AllowPermissive |-> allow, AutoMtlsEnabled |-> auto, DestinationRules |-> drs,
     MatchingLabels |-> labels, PeerAuthentications |-> pas, Services |-> svcs]

(* A label map (map[string]string, labels.Set) is the set of its <<key, value>> pairs. *)
NoLabels == {}

(* A receiver carrying only the two mesh-wide flags. *)
FlagsOnly(allow, auto) == MtlsStatus(allow, auto, <<>>, NoLabels, <<>>, <<>>)

(* config.NewConfig(): ExternalServices.Istio.IstioIdentityDomain *)
DefaultConf == [IstioIdentityDomain |-> "svc.cluster.local"]

(* security_v1.PeerAuthentication: Spec.Selector (nil or present, with its    *)
(* MatchLabels; a nil and an empty map are both {}, the code reads the map    *)
(* through len() and labels.Set only) and Spec.Mtls ("nil" or its Mode).      *)
PeerAuthentication(hasSelector, matchLabels, mtls) ==
    [HasSelector |-> hasSelector, MatchLabels |-> matchLabels, Mtls |-> mtls]

(* core_v1.Service: Name, Namespace and Spec.Selector (a label map) *)
Service(name, ns, selector) == [Name |-> name, Namespace |-> ns, Selector |-> selector]

(* networking_v1.DestinationRule: Namespace, Spec.Host and                    *)
(* Spec.TrafficPolicy.Tls ("nil" when either pointer is nil, else its Mode).  *)
DestinationRule(ns, host, tls) == [Namespace |-> ns, Host |-> host, Tls |-> tls]

-----------------------------------------------------------------------------
(* kubernetes/istio.go *)

(* func PeerAuthnMTLSMode(peerAuthn) (bool, string) *)
PeerAuthnMTLSMode(peerAuthn) ==
    IF peerAuthn.Mtls # "nil"
    THEN <<peerAuthn.Mtls = "STRICT" \/ peerAuthn.Mtls = "PERMISSIVE", peerAuthn.Mtls>>
    ELSE <<FALSE, "">>

(* func PeerAuthnHasMTLSEnabled(peerAuthn) (bool, string) *)
PeerAuthnHasMTLSEnabled_inverted(peerAuthn) ==
    IF ~peerAuthn.HasSelector
    THEN <<FALSE, "">>
    ELSE PeerAuthnMTLSMode(peerAuthn)

PeerAuthnHasMTLSEnabled_nonEmptyOnly(peerAuthn) ==
    IF peerAuthn.HasSelector /\ Cardinality(peerAuthn.MatchLabels) > 0
    THEN <<FALSE, "">>
    ELSE PeerAuthnMTLSMode(peerAuthn)

PeerAuthnHasMTLSEnabled(peerAuthn) ==
    IF peerAuthn.HasSelector /\ Cardinality(peerAuthn.MatchLabels) >= 0
    THEN <<FALSE, "">>
    ELSE PeerAuthnMTLSMode(peerAuthn)

(* func DestinationRuleHasMTLSEnabled(destinationRule) (bool, string) *)
DestinationRuleHasMTLSEnabled(destinationRule) ==
    IF destinationRule.Tls # "nil"
    THEN <<destinationRule.Tls = "ISTIO_MUTUAL", destinationRule.Tls>>
    ELSE <<FALSE, "">>

(* func DestinationRuleHasMTLSEnabledForHost(expectedHost, destinationRule) (bool, string) *)
DestinationRuleHasMTLSEnabledForHost_anyHost(expectedHost, destinationRule) ==
    IF destinationRule.Host = ""
    THEN <<FALSE, "">>
    ELSE DestinationRuleHasMTLSEnabled(destinationRule)

DestinationRuleHasMTLSEnabledForHost(expectedHost, destinationRule) ==
    IF destinationRule.Host = "" \/ destinationRule.Host # expectedHost
    THEN <<FALSE, "">>
    ELSE DestinationRuleHasMTLSEnabled(destinationRule)

(* func DestinationRuleHasNamespaceWideMTLSEnabled(namespace, destinationRule, conf) *)
DestinationRuleHasNamespaceWideMTLSEnabled(ns, destinationRule, cf) ==
    LET nsHost == "*." \o ns \o "." \o cf.IstioIdentityDomain
    IN  DestinationRuleHasMTLSEnabledForHost(nsHost, destinationRule)

(* kubernetes.FilterByHost: the host names the service by its bare name     *)
(* (within the rule's own namespace), name.namespace, name.namespace.svc or  *)
(* name.namespace.<identity domain>.                                         *)
FilterByHost(host, hostNamespace, serviceName, svcNamespace, cf) ==
    \/ host = serviceName /\ hostNamespace = svcNamespace
    \/ host = serviceName \o "." \o svcNamespace
    \/ host = serviceName \o "." \o svcNamespace \o ".svc"
    \/ host = serviceName \o "." \o svcNamespace \o "." \o cf.IstioIdentityDomain

(* kubernetes.FilterDestinationRulesByService: the rules that target the service, in order *)
FilterDestinationRulesByService(allDr, ns, serviceName, cf) ==
    SelectSeq(allDr, LAMBDA dr :
        serviceName = "" \/ FilterByHost(dr.Host, dr.Namespace, serviceName, ns, cf))

(* labels.Set(selectorLabels).AsSelector().Matches(set): every pair of the   *)
(* selector is in the set; the selector of an empty map matches everything.  *)
SelectorMatches(selectorLabels, set) == selectorLabels \subseteq set

(* type kubeServiceEntry struct *)
kubeServiceEntry(exportTo, ns) == [exportTo |-> exportTo, namespace |-> ns]

(* type KubeServiceHosts struct: entries maps a host to a *kubeServiceEntry. *)
(* A pointer is the position of the entry in heap, the entries allocated so  *)
(* far; two keys share an entry when they hold the same pointer.             *)
KubeServiceHosts(entries, heap) == [entries |-> entries, heap |-> heap]

(* make(map[string]*kubeServiceEntry): no key, nothing allocated *)
EmptyHosts == KubeServiceHosts(<<>>, <<>>)

(* core_v1.Service as NewKubeServiceHosts reads it: Name, Namespace and the   *)
(* networking.istio.io/exportTo annotation (present or not, and its value).   *)
(* An annotation value is the sequence of its pieces: "," , " " and the       *)
(* tokens between them, which hold neither commas nor spaces.                 *)
AnnotatedService(name, ns, hasExportTo, value) ==
    [Name |-> name, Namespace |-> ns, HasExportTo |-> hasExportTo, ExportTo |-> value]

(* strings.Split(annotation, ","): the parts between the commas, one more    *)
(* than there are commas                                                     *)
RECURSIVE Split(_, _)
Split(pieces, current) ==
    IF pieces = <<>> THEN <<current>>
    ELSE IF Head(pieces) = "," THEN <<current>> \o Split(Tail(pieces), <<>>)
    ELSE Split(Tail(pieces), Append(current, Head(pieces)))

(* strings.TrimSpace(p): without its leading and trailing white space *)
RECURSIVE TrimLeft(_)
TrimLeft(part) ==
    IF part # <<>> /\ Head(part) = " " THEN TrimLeft(Tail(part)) ELSE part

RECURSIVE TrimRight(_)
TrimRight(part) ==
    IF part # <<>> /\ part[Len(part)] = " "
    THEN TrimRight(SubSeq(part, 1, Len(part) - 1))
    ELSE part

TrimSpace(part) == TrimRight(TrimLeft(part))

(* the string a sequence of pieces spells *)
RECURSIVE Spell(_)
Spell(part) == IF part = <<>> THEN "" ELSE Head(part) \o Spell(Tail(part))

(* func parseExportToAnnotation(annotation string) []string *)
RECURSIVE parseParts(_)
parseParts(parts) ==
    IF parts = <<>> THEN <<>>
    ELSE LET p == Spell(TrimSpace(Head(parts)))
         IN  (IF p # "" THEN <<p>> ELSE <<>>) \o parseParts(Tail(parts))

parseExportToAnnotation(annotation) == parseParts(Split(annotation, <<>>))

(* func IsExportedTo(exportTo []string, resourceNamespace, viewerNamespace string) bool *)
RECURSIVE IsExportedToFrom_tildeStops(_, _, _, _)
IsExportedToFrom_tildeStops(exportTo, resourceNamespace, viewerNamespace, i) ==
    IF i > Len(exportTo) THEN FALSE
    ELSE LET export == exportTo[i]
         IN  CASE export = "*" -> TRUE
               [] export = "." ->
                      IF resourceNamespace = viewerNamespace THEN TRUE
                      ELSE IsExportedToFrom_tildeStops(exportTo, resourceNamespace, viewerNamespace, i + 1)
               [] export = "~" -> FALSE
               [] OTHER ->
                      IF export = viewerNamespace THEN TRUE
                      ELSE IsExportedToFrom_tildeStops(exportTo, resourceNamespace, viewerNamespace, i + 1)

RECURSIVE IsExportedToFrom_dotStops(_, _, _, _)
IsExportedToFrom_dotStops(exportTo, resourceNamespace, viewerNamespace, i) ==
    IF i > Len(exportTo) THEN FALSE
    ELSE LET export == exportTo[i]
         IN  CASE export = "*" -> TRUE
               [] export = "." ->
                      resourceNamespace = viewerNamespace
               [] export = "~" ->
                      IsExportedToFrom_dotStops(exportTo, resourceNamespace, viewerNamespace, i + 1)
               [] OTHER ->
                      IF export = viewerNamespace THEN TRUE
                      ELSE IsExportedToFrom_dotStops(exportTo, resourceNamespace, viewerNamespace, i + 1)

RECURSIVE IsExportedToFrom(_, _, _, _)
IsExportedToFrom(exportTo, resourceNamespace, viewerNamespace, i) ==
    IF i > Len(exportTo) THEN FALSE
    ELSE LET export == exportTo[i]
         IN  CASE export = "*" -> TRUE
               [] export = "." ->
                      IF resourceNamespace = viewerNamespace THEN TRUE
                      ELSE IsExportedToFrom(exportTo, resourceNamespace, viewerNamespace, i + 1)
               [] export = "~" ->
                      IsExportedToFrom(exportTo, resourceNamespace, viewerNamespace, i + 1)
               [] OTHER ->
                      IF export = viewerNamespace THEN TRUE
                      ELSE IsExportedToFrom(exportTo, resourceNamespace, viewerNamespace, i + 1)

IsExportedTo(exportTo, resourceNamespace, viewerNamespace) ==
    IF Len(exportTo) = 0 THEN TRUE
    ELSE IsExportedToFrom(exportTo, resourceNamespace, viewerNamespace, 1)

(* NewKubeServiceHosts, the body of the loop: one entry is allocated for the *)
(* service and stored under its three keys, over whatever they held          *)
(* Port names and protocols are sequences of characters, so that prefixes   *)
(* and remainders can be taken.                                              *)

(* strings.ToLower, on the letters that occur in the protocols *)
ToLowerChar(c) ==
    CASE c = "C" -> "c" [] c = "D" -> "d" [] c = "G" -> "g" [] c = "H" -> "h"
      [] c = "L" -> "l" [] c = "P" -> "p" [] c = "R" -> "r" [] c = "S" -> "s"
      [] c = "T" -> "t" [] c = "U" -> "u" [] OTHER -> c

ToLower(str) == [i \in 1..Len(str) |-> ToLowerChar(str[i])]

(* strings.HasPrefix(str, prefix) *)
HasPrefix(str, prefix) ==
    Len(str) >= Len(prefix) /\ SubSeq(str, 1, Len(prefix)) = prefix

(* portNameMatcher = regexp.MustCompile(`^[\-].*`), MatchString: the text    *)
(* starts with a dash; ".*" also matches nothing                             *)
portNameMatcher(str) == str # <<>> /\ str[1] = "-"

(* func mapPortToVirtualServiceProtocol(proto string) string *)
mapPortToVirtualServiceProtocol_httpsAsHttp(proto) ==
    CASE proto \in {"HTTP", "HTTP2", "GRPC", "HTTPS"} -> "http"
      [] proto = "TLS" -> "tls"
      [] OTHER -> "tcp"

mapPortToVirtualServiceProtocol(proto) ==
    CASE proto = "HTTP" -> "http"
      [] proto = "HTTP2" -> "http"
      [] proto = "GRPC" -> "http"
      [] proto = "HTTPS" -> "tls"
      [] proto = "TLS" -> "tls"
      [] OTHER -> "tcp"

(* func MatchPortNameRule(portName, protocol string) bool *)
MatchPortNameRule(name, proto) ==
    LET lower == ToLower(proto)
    IN  IF lower = <<"t", "c", "p">> \/ lower = <<"u", "d", "p">> THEN TRUE
        ELSE IF ~HasPrefix(name, lower) THEN FALSE
        ELSE IF Len(name) > Len(lower)
             THEN LET restPortName == SubSeq(name, Len(lower) + 1, Len(name))
                  IN  portNameMatcher(restPortName)
        ELSE TRUE

RegisterService_noTwoPart(h, svc, cf, default) ==
    LET entry == kubeServiceEntry(
                     IF svc.HasExportTo THEN parseExportToAnnotation(svc.ExportTo)
                     ELSE default,
                     svc.Namespace)
        ptr == Len(h.heap) + 1
        clusterDomain == cf.IstioIdentityDomain
        fqdn == svc.Name \o "." \o svc.Namespace \o "." \o clusterDomain
        shortFqdn == svc.Name \o "." \o svc.Namespace \o ".svc"
        twoPart == svc.Name \o "." \o svc.Namespace
        keys == {fqdn, shortFqdn}
    IN  KubeServiceHosts([k \in DOMAIN h.entries \cup keys |->
                             IF k \in keys THEN ptr ELSE h.entries[k]],
                         Append(h.heap, entry))

RegisterService_bareName(h, svc, cf, default) ==
    LET entry == kubeServiceEntry(
                     IF svc.HasExportTo THEN parseExportToAnnotation(svc.ExportTo)
                     ELSE default,
                     svc.Namespace)
        ptr == Len(h.heap) + 1
        clusterDomain == cf.IstioIdentityDomain
        fqdn == svc.Name \o "." \o svc.Namespace \o "." \o clusterDomain
        shortFqdn == svc.Name \o "." \o svc.Namespace \o ".svc"
        twoPart == svc.Name \o "." \o svc.Namespace
        keys == {fqdn, shortFqdn, twoPart, svc.Name}
    IN  KubeServiceHosts([k \in DOMAIN h.entries \cup keys |->
                             IF k \in keys THEN ptr ELSE h.entries[k]],
                         Append(h.heap, entry))

RegisterService_fixedDomain(h, svc, cf, default) ==
    LET entry == kubeServiceEntry(
                     IF svc.HasExportTo THEN parseExportToAnnotation(svc.ExportTo)
                     ELSE default,
                     svc.Namespace)
        ptr == Len(h.heap) + 1
        clusterDomain == "svc.cluster.local"
        fqdn == svc.Name \o "." \o svc.Namespace \o "." \o clusterDomain
        shortFqdn == svc.Name \o "." \o svc.Namespace \o ".svc"
        twoPart == svc.Name \o "." \o svc.Namespace
        keys == {fqdn, shortFqdn, twoPart}
    IN  KubeServiceHosts([k \in DOMAIN h.entries \cup keys |->
                             IF k \in keys THEN ptr ELSE h.entries[k]],
                         Append(h.heap, entry))

RegisterService_defaultWhenEmpty(h, svc, cf, default) ==
    LET entry == kubeServiceEntry(
                     IF svc.HasExportTo /\ parseExportToAnnotation(svc.ExportTo) # <<>>
                     THEN parseExportToAnnotation(svc.ExportTo)
                     ELSE default,
                     svc.Namespace)
        ptr == Len(h.heap) + 1
        clusterDomain == cf.IstioIdentityDomain
        fqdn == svc.Name \o "." \o svc.Namespace \o "." \o clusterDomain
        shortFqdn == svc.Name \o "." \o svc.Namespace \o ".svc"
        twoPart == svc.Name \o "." \o svc.Namespace
        keys == {fqdn, shortFqdn, twoPart}
    IN  KubeServiceHosts([k \in DOMAIN h.entries \cup keys |->
                             IF k \in keys THEN ptr ELSE h.entries[k]],
                         Append(h.heap, entry))

RegisterService(h, svc, cf, default) ==
    LET entry == kubeServiceEntry(
                     IF svc.HasExportTo THEN parseExportToAnnotation(svc.ExportTo)
                     ELSE default,
                     svc.Namespace)
        ptr == Len(h.heap) + 1
        clusterDomain == cf.IstioIdentityDomain
        fqdn == svc.Name \o "." \o svc.Namespace \o "." \o clusterDomain
        shortFqdn == svc.Name \o "." \o svc.Namespace \o ".svc"
        twoPart == svc.Name \o "." \o svc.Namespace
        keys == {fqdn, shortFqdn, twoPart}
    IN  KubeServiceHosts([k \in DOMAIN h.entries \cup keys |->
                             IF k \in keys THEN ptr ELSE h.entries[k]],
                         Append(h.heap, entry))

(* func NewKubeServiceHosts(services, conf, defaultExportTo) KubeServiceHosts *)
RECURSIVE RegisterFrom(_, _, _, _, _)
RegisterFrom(h, svcs, cf, default, i) ==
    IF i > Len(svcs) THEN h
    ELSE RegisterFrom(RegisterService(h, svcs[i], cf, default), svcs, cf, default, i + 1)

NewKubeServiceHosts(svcs, cf, default) == RegisterFrom(EmptyHosts, svcs, cf, default, 1)

(* func (h KubeServiceHosts) HasHost(host string) bool *)
HasHost(h, host) == host \in DOMAIN h.entries

(* func (h KubeServiceHosts) IsValidForNamespace(host, namespace string) bool *)
IsValidForNamespace_unknownVisible(h, host, ns) ==
    IF host \notin DOMAIN h.entries THEN IsExportedTo(<<>>, "", ns)
    ELSE LET entry == h.heap[h.entries[host]]
         IN  IsExportedTo(entry.exportTo, entry.namespace, ns)

IsValidForNamespace(h, host, ns) ==
    IF host \notin DOMAIN h.entries THEN FALSE
    ELSE LET entry == h.heap[h.entries[host]]
         IN  IsExportedTo(entry.exportTo, entry.namespace, ns)

(* no index built, no lookup made *)
NoQuery == [fn |-> "none", host |-> "", viewer |-> "", answer |-> FALSE]

(* no stateless helper called *)
NoLeafCall ==
    /\ exportList = <<>>
    /\ resourceNs = ""
    /\ viewerNs = ""
    /\ exported = FALSE
    /\ portName = <<>>
    /\ protocol = <<>>
    /\ valid = FALSE
    /\ vsProtocol = "none"

NoHostIndex ==
    /\ services = <<>>
    /\ defaultExportTo = <<>>
    /\ hosts = EmptyHosts
    /\ query = NoQuery

-----------------------------------------------------------------------------
(* util/mtls/status.go *)

(* The mode a range loop returns: that of the first element whose mode is not "". *)
RECURSIVE FirstMode(_, _)
FirstMode(modes, i) ==
    IF i > Len(modes) THEN ""
    ELSE IF modes[i] # "" THEN modes[i]
    ELSE FirstMode(modes, i + 1)

(* func (m MtlsStatus) hasPeerAuthnNamespacemTLSDefinition() string *)
hasPeerAuthnNamespacemTLSDefinition(mm) ==
    FirstMode([i \in 1..Len(mm.PeerAuthentications) |->
                  PeerAuthnHasMTLSEnabled(mm.PeerAuthentications[i])[2]], 1)

(* func (m MtlsStatus) hasDesinationRuleEnablingNamespacemTLS(namespace, conf) string *)
hasDesinationRuleEnablingNamespacemTLS(mm, ns, cf) ==
    FirstMode([i \in 1..Len(mm.DestinationRules) |->
                  DestinationRuleHasNamespaceWideMTLSEnabled(ns, mm.DestinationRules[i], cf)[2]], 1)

(* func (m MtlsStatus) hasPeerAuthnMeshTLSDefinition() string *)
hasPeerAuthnMeshTLSDefinition(mm) ==
    FirstMode([i \in 1..Len(mm.PeerAuthentications) |->
                  PeerAuthnHasMTLSEnabled(mm.PeerAuthentications[i])[2]], 1)

(* func (m MtlsStatus) hasDestinationRuleMeshTLSDefinition() string *)
hasDestinationRuleMeshTLSDefinition(mm) ==
    FirstMode([i \in 1..Len(mm.DestinationRules) |->
                  DestinationRuleHasMTLSEnabledForHost("*.local", mm.DestinationRules[i])[2]], 1)

(* func (m MtlsStatus) finalStatus(drStatus, paStatus string) TlsStatus *)
finalStatus_noAutoDisable(mm, drStatus, paStatus) ==
    LET mtlsEnabled  == drStatus = "ISTIO_MUTUAL" \/ drStatus = "MUTUAL"
                        \/ (drStatus = "" /\ mm.AutoMtlsEnabled)
        mtlsDisabled == drStatus = "DISABLE"
        overall ==
            IF (paStatus = "STRICT" \/ (paStatus = "PERMISSIVE" /\ mm.AllowPermissive))
               /\ mtlsEnabled
            THEN MTLSEnabled
            ELSE IF paStatus = "DISABLE" /\ mtlsDisabled THEN MTLSDisabled
            ELSE IF paStatus = "" /\ drStatus = "" THEN MTLSNotEnabled
            ELSE MTLSPartiallyEnabled
    IN  TlsStatus(drStatus, paStatus, overall)

finalStatus_permissiveAlways(mm, drStatus, paStatus) ==
    LET mtlsEnabled  == drStatus = "ISTIO_MUTUAL" \/ drStatus = "MUTUAL"
                        \/ (drStatus = "" /\ mm.AutoMtlsEnabled)
        mtlsDisabled == drStatus = "DISABLE" \/ (drStatus = "" /\ mm.AutoMtlsEnabled)
        overall ==
            IF (paStatus = "STRICT" \/ paStatus = "PERMISSIVE") /\ mtlsEnabled
            THEN MTLSEnabled
            ELSE IF paStatus = "DISABLE" /\ mtlsDisabled THEN MTLSDisabled
            ELSE IF paStatus = "" /\ drStatus = "" THEN MTLSNotEnabled
            ELSE MTLSPartiallyEnabled
    IN  TlsStatus(drStatus, paStatus, overall)

finalStatus_noPartial(mm, drStatus, paStatus) ==
    LET mtlsEnabled  == drStatus = "ISTIO_MUTUAL" \/ drStatus = "MUTUAL"
                        \/ (drStatus = "" /\ mm.AutoMtlsEnabled)
        mtlsDisabled == drStatus = "DISABLE" \/ (drStatus = "" /\ mm.AutoMtlsEnabled)
        overall ==
            IF (paStatus = "STRICT" \/ (paStatus = "PERMISSIVE" /\ mm.AllowPermissive))
               /\ mtlsEnabled
            THEN MTLSEnabled
            ELSE IF paStatus = "DISABLE" /\ mtlsDisabled THEN MTLSDisabled
            ELSE IF paStatus = "" /\ drStatus = "" THEN MTLSNotEnabled
            ELSE ""
    IN  TlsStatus(drStatus, paStatus, overall)

finalStatus_emptyDrEnables(mm, drStatus, paStatus) ==
    LET mtlsEnabled  == drStatus = "ISTIO_MUTUAL" \/ drStatus = "MUTUAL" \/ drStatus = ""
        mtlsDisabled == drStatus = "DISABLE" \/ (drStatus = "" /\ mm.AutoMtlsEnabled)
        overall ==
            IF (paStatus = "STRICT" \/ (paStatus = "PERMISSIVE" /\ mm.AllowPermissive))
               /\ mtlsEnabled
            THEN MTLSEnabled
            ELSE IF paStatus = "DISABLE" /\ mtlsDisabled THEN MTLSDisabled
            ELSE IF paStatus = "" /\ drStatus = "" THEN MTLSNotEnabled
            ELSE MTLSPartiallyEnabled
    IN  TlsStatus(drStatus, paStatus, overall)

finalStatus(mm, drStatus, paStatus) ==
    LET mtlsEnabled  == drStatus = "ISTIO_MUTUAL" \/ drStatus = "MUTUAL"
                        \/ (drStatus = "" /\ mm.AutoMtlsEnabled)
        mtlsDisabled == drStatus = "DISABLE" \/ (drStatus = "" /\ mm.AutoMtlsEnabled)
        overall ==
            IF (paStatus = "STRICT" \/ (paStatus = "PERMISSIVE" /\ mm.AllowPermissive))
               /\ mtlsEnabled
            THEN MTLSEnabled
            ELSE IF paStatus = "DISABLE" /\ mtlsDisabled THEN MTLSDisabled
            ELSE IF paStatus = "" /\ drStatus = "" THEN MTLSNotEnabled
            ELSE MTLSPartiallyEnabled
    IN  TlsStatus(drStatus, paStatus, overall)

(* func (t TlsStatus) hasDefinedTls() bool *)
hasDefinedTls(t) == t.OverallStatus = MTLSEnabled \/ t.OverallStatus = MTLSDisabled

(* func (t TlsStatus) hasPartialTlsConfig() bool *)
hasPartialTlsConfig(t) == t.OverallStatus = MTLSPartiallyEnabled

(* func (t TlsStatus) hasHalfTlsConfigDefined(autoMtls, allowPermissive bool) bool *)
hasHalfTlsConfigDefined_noFlag(t, autoMtls, allowPermissive) ==
    \/ t.PeerAuthenticationStatus = "STRICT" /\ t.DestinationRuleStatus = ""
    \/ (t.DestinationRuleStatus = "ISTIO_MUTUAL" \/ t.DestinationRuleStatus = "MUTUAL")
       /\ t.PeerAuthenticationStatus = ""
    \/ t.PeerAuthenticationStatus = "PERMISSIVE" /\ t.DestinationRuleStatus = ""

hasHalfTlsConfigDefined(t, autoMtls, allowPermissive) ==
    IF autoMtls
    THEN LET defined ==
                 \/ t.PeerAuthenticationStatus = "STRICT" /\ t.DestinationRuleStatus = ""
                 \/ (t.DestinationRuleStatus = "ISTIO_MUTUAL"
                     \/ t.DestinationRuleStatus = "MUTUAL")
                    /\ t.PeerAuthenticationStatus = ""
         IN  IF ~defined /\ allowPermissive
             THEN t.PeerAuthenticationStatus = "PERMISSIVE" /\ t.DestinationRuleStatus = ""
             ELSE defined
    ELSE FALSE

(* func (t TlsStatus) hasNoConfig() bool *)
hasNoConfig(t) == t.PeerAuthenticationStatus = "" /\ t.DestinationRuleStatus = ""

(* func (t TlsStatus) hasPartialDisabledConfig() bool *)
hasPartialDisabledConfig(t) ==
    \/ t.PeerAuthenticationStatus = "DISABLE" /\ t.DestinationRuleStatus = ""
    \/ t.DestinationRuleStatus = "DISABLE" /\ t.PeerAuthenticationStatus = ""

(* The chain of else-if tests of OverallMtlsStatus: the branch it takes. *)
OverallBranch_meshFirst(mm, ns, mesh) ==
    IF hasDefinedTls(mesh) THEN "meshDefined"
    ELSE IF hasDefinedTls(ns) THEN "nsDefined"
    ELSE IF hasPartialTlsConfig(ns) THEN "inherited"
    ELSE IF hasNoConfig(mesh) THEN "noConfig"
    ELSE IF hasPartialDisabledConfig(mesh) THEN "partialDisabled"
    ELSE IF hasHalfTlsConfigDefined(mesh, mm.AutoMtlsEnabled, mm.AllowPermissive) THEN "half"
    ELSE IF ~mm.AutoMtlsEnabled /\ hasPartialTlsConfig(mesh) THEN "partial"
    ELSE "fallback"

OverallBranch(mm, ns, mesh) ==
    IF hasDefinedTls(ns) THEN "nsDefined"
    ELSE IF hasPartialTlsConfig(ns) THEN "inherited"
    ELSE IF hasDefinedTls(mesh) THEN "meshDefined"
    ELSE IF hasNoConfig(mesh) THEN "noConfig"
    ELSE IF hasPartialDisabledConfig(mesh) THEN "partialDisabled"
    ELSE IF hasHalfTlsConfigDefined(mesh, mm.AutoMtlsEnabled, mm.AllowPermissive) THEN "half"
    ELSE IF ~mm.AutoMtlsEnabled /\ hasPartialTlsConfig(mesh) THEN "partial"
    ELSE "fallback"

(* The status each branch that makes no call assigns. *)
OverallAssigned_partialNotEnabled(branch, ns, mesh) ==
    CASE branch = "nsDefined"       -> ns.OverallStatus
      [] branch = "meshDefined"     -> mesh.OverallStatus
      [] branch = "noConfig"        -> MTLSNotEnabled
      [] branch = "partialDisabled" -> MTLSDisabled
      [] branch = "half"            -> MTLSEnabled
      [] branch = "partial"         -> MTLSNotEnabled
      [] OTHER                      -> MTLSPartiallyEnabled

OverallAssigned(branch, ns, mesh) ==
    CASE branch = "nsDefined"       -> ns.OverallStatus
      [] branch = "meshDefined"     -> mesh.OverallStatus
      [] branch = "noConfig"        -> MTLSNotEnabled
      [] branch = "partialDisabled" -> MTLSDisabled
      [] branch = "half"            -> MTLSEnabled
      [] branch = "partial"         -> MTLSPartiallyEnabled
      [] OTHER                      -> MTLSPartiallyEnabled

(* inheritedOverallStatus: the two arguments of its nested OverallMtlsStatus call *)
inheritedArgs_meshDR(mm, ns, mesh) ==
    LET partialPAStatus == IF ns.PeerAuthenticationStatus = ""
                           THEN mesh.PeerAuthenticationStatus
                           ELSE ns.PeerAuthenticationStatus
    IN  <<ZeroTls, finalStatus(mm, mesh.DestinationRuleStatus, partialPAStatus)>>

inheritedArgs_keepNs(mm, ns, mesh) ==
    LET partialDRStatus == IF ns.DestinationRuleStatus = ""
                           THEN mesh.DestinationRuleStatus
                           ELSE ns.DestinationRuleStatus
        partialPAStatus == IF ns.PeerAuthenticationStatus = ""
                           THEN mesh.PeerAuthenticationStatus
                           ELSE ns.PeerAuthenticationStatus
    IN  <<ns, finalStatus(mm, partialDRStatus, partialPAStatus)>>

inheritedArgs_meshPA(mm, ns, mesh) ==
    LET partialDRStatus == IF ns.DestinationRuleStatus = ""
                           THEN mesh.DestinationRuleStatus
                           ELSE ns.DestinationRuleStatus
        partialPAStatus == IF mesh.PeerAuthenticationStatus = ""
                           THEN ns.PeerAuthenticationStatus
                           ELSE mesh.PeerAuthenticationStatus
    IN  <<ZeroTls, finalStatus(mm, partialDRStatus, partialPAStatus)>>

inheritedArgs(mm, ns, mesh) ==
    LET partialDRStatus == IF ns.DestinationRuleStatus = ""
                           THEN mesh.DestinationRuleStatus
                           ELSE ns.DestinationRuleStatus
        partialPAStatus == IF ns.PeerAuthenticationStatus = ""
                           THEN mesh.PeerAuthenticationStatus
                           ELSE ns.PeerAuthenticationStatus
    IN  <<ZeroTls, finalStatus(mm, partialDRStatus, partialPAStatus)>>

RECURSIVE OverallMtlsStatus(_, _, _), inheritedOverallStatus(_, _, _)

(* func (m MtlsStatus) OverallMtlsStatus(nsStatus, meshStatus TlsStatus) string *)
OverallMtlsStatus(mm, ns, mesh) ==
    LET branch == OverallBranch(mm, ns, mesh)
    IN  IF branch = "inherited"
        THEN inheritedOverallStatus(mm, ns, mesh)
        ELSE OverallAssigned(branch, ns, mesh)

(* func (m MtlsStatus) inheritedOverallStatus(nsStatus, meshStatus TlsStatus) string *)
inheritedOverallStatus(mm, ns, mesh) ==
    LET args == inheritedArgs(mm, ns, mesh)
    IN  OverallMtlsStatus(mm, args[1], args[2])

(* func (m MtlsStatus) NamespaceMtlsStatus(namespace, conf) TlsStatus *)
NamespaceMtlsStatus(mm, ns, cf) ==
    LET drStatus == hasDesinationRuleEnablingNamespacemTLS(mm, ns, cf)
        paStatus == hasPeerAuthnNamespacemTLSDefinition(mm)
    IN  finalStatus(mm, drStatus, paStatus)

(* func (m MtlsStatus) MeshMtlsStatus() TlsStatus *)
MeshMtlsStatus_notNormalised(mm) ==
    LET drStatus == hasDestinationRuleMeshTLSDefinition(mm)
        paStatus == hasPeerAuthnMeshTLSDefinition(mm)
    IN  TlsStatus(drStatus, paStatus, finalStatus(mm, drStatus, paStatus).OverallStatus)

MeshMtlsStatus(mm) ==
    LET drStatus == hasDestinationRuleMeshTLSDefinition(mm)
        paStatus == hasPeerAuthnMeshTLSDefinition(mm)
    IN  TlsStatus(drStatus, paStatus,
                  OverallMtlsStatus(mm, ZeroTls, finalStatus(mm, drStatus, paStatus)))

(* WorkloadMtlsStatus, status.go:58-76: the loop passes over this policy *)
SkipsPeerAuthentication_emptyMatchesAll(pa, set) ==
    \/ ~pa.HasSelector
    \/ ~SelectorMatches(pa.MatchLabels, set)

SkipsPeerAuthentication_ignoresLabels(pa, set) ==
    \/ ~pa.HasSelector
    \/ Cardinality(pa.MatchLabels) = 0

SkipsPeerAuthentication(pa, set) ==
    \/ ~pa.HasSelector
    \/ Cardinality(pa.MatchLabels) = 0
    \/ ~SelectorMatches(pa.MatchLabels, set)

(* status.go:95-102: the first rule of filteredDrs that decides, "" if none does *)
RECURSIVE DecideByRules(_, _)
DecideByRules(filteredDrs, i) ==
    IF i > Len(filteredDrs) THEN ""
    ELSE LET hm == DestinationRuleHasMTLSEnabled(filteredDrs[i])
         IN  IF hm[1] \/ hm[2] = "MUTUAL" THEN MTLSEnabled
             ELSE IF hm[2] = "DISABLE" THEN MTLSDisabled
             ELSE DecideByRules(filteredDrs, i + 1)

(* status.go:89-106: the services whose selector the policy's selector matches, in order *)
RECURSIVE DecideByServices_anyNamespace(_, _, _, _, _)
DecideByServices_anyNamespace(mm, ns, cf, selectorLabels, j) ==
    IF j > Len(mm.Services) THEN MTLSNotEnabled
    ELSE LET svc == mm.Services[j]
         IN  IF Cardinality(svc.Selector) = 0
             THEN DecideByServices_anyNamespace(mm, ns, cf, selectorLabels, j + 1)
             ELSE IF SelectorMatches(selectorLabels, svc.Selector)
             THEN LET decided == DecideByRules(
                          FilterDestinationRulesByService(mm.DestinationRules,
                                                          svc.Namespace, svc.Name, cf), 1)
                  IN  IF decided # "" THEN decided
                      ELSE DecideByServices_anyNamespace(mm, ns, cf, selectorLabels, j + 1)
             ELSE DecideByServices_anyNamespace(mm, ns, cf, selectorLabels, j + 1)

RECURSIVE DecideByServices(_, _, _, _, _)
DecideByServices(mm, ns, cf, selectorLabels, j) ==
    IF j > Len(mm.Services) THEN MTLSNotEnabled
    ELSE LET svc == mm.Services[j]
         IN  IF svc.Namespace # ns \/ Cardinality(svc.Selector) = 0
             THEN DecideByServices(mm, ns, cf, selectorLabels, j + 1)
             ELSE IF SelectorMatches(selectorLabels, svc.Selector)
             THEN LET decided == DecideByRules(
                          FilterDestinationRulesByService(mm.DestinationRules,
                                                          svc.Namespace, svc.Name, cf), 1)
                  IN  IF decided # "" THEN decided
                      ELSE DecideByServices(mm, ns, cf, selectorLabels, j + 1)
             ELSE DecideByServices(mm, ns, cf, selectorLabels, j + 1)

(* status.go:78-108: the switch on the mode of a matching policy; "" when no *)
(* case applies and the loop goes on to the next policy                      *)
WorkloadSwitch_strictNeedsRules(mm, ns, cf, pa) ==
    LET mode == PeerAuthnMTLSMode(pa)[2]
    IN  CASE mode = "DISABLE" -> MTLSDisabled
          [] mode \in {"STRICT", "PERMISSIVE"} ->
                 IF Len(mm.DestinationRules) = 0 THEN MTLSNotEnabled
                 ELSE DecideByServices(mm, ns, cf, pa.MatchLabels, 1)
          [] OTHER -> ""

WorkloadSwitch_permissivePartial(mm, ns, cf, pa) ==
    LET mode == PeerAuthnMTLSMode(pa)[2]
    IN  CASE mode = "STRICT" -> MTLSEnabled
          [] mode = "DISABLE" -> MTLSDisabled
          [] mode = "PERMISSIVE" ->
                 IF Len(mm.DestinationRules) = 0 THEN MTLSPartiallyEnabled
                 ELSE DecideByServices(mm, ns, cf, pa.MatchLabels, 1)
          [] OTHER -> ""

WorkloadSwitch(mm, ns, cf, pa) ==
    LET mode == PeerAuthnMTLSMode(pa)[2]
    IN  CASE mode = "STRICT" -> MTLSEnabled
          [] mode = "DISABLE" -> MTLSDisabled
          [] mode = "PERMISSIVE" ->
                 IF Len(mm.DestinationRules) = 0 THEN MTLSNotEnabled
                 ELSE DecideByServices(mm, ns, cf, pa.MatchLabels, 1)
          [] OTHER -> ""

(* status.go:57-111: the loop over m.PeerAuthentications from index i on *)
RECURSIVE WorkloadLoop(_, _, _, _)
WorkloadLoop(mm, ns, cf, i) ==
    IF i > Len(mm.PeerAuthentications) THEN MTLSNotEnabled
    ELSE LET pa == mm.PeerAuthentications[i]
         IN  IF SkipsPeerAuthentication(pa, mm.MatchingLabels)
             THEN WorkloadLoop(mm, ns, cf, i + 1)
             ELSE LET status == WorkloadSwitch(mm, ns, cf, pa)
                  IN  IF status # "" THEN status ELSE WorkloadLoop(mm, ns, cf, i + 1)

(* the same loop with the returns replaced by assignments: the last policy wins *)
RECURSIVE WorkloadLoopLast(_, _, _, _)
WorkloadLoopLast(mm, ns, cf, i) ==
    IF i < 1 THEN MTLSNotEnabled
    ELSE LET pa == mm.PeerAuthentications[i]
         IN  IF SkipsPeerAuthentication(pa, mm.MatchingLabels)
             THEN WorkloadLoopLast(mm, ns, cf, i - 1)
             ELSE LET status == WorkloadSwitch(mm, ns, cf, pa)
                  IN  IF status # "" THEN status ELSE WorkloadLoopLast(mm, ns, cf, i - 1)

(* func (m MtlsStatus) WorkloadMtlsStatus(namespace, conf) string *)
WorkloadMtlsStatus_lastWins(mm, ns, cf) ==
    WorkloadLoopLast(mm, ns, cf, Len(mm.PeerAuthentications))

WorkloadMtlsStatus(mm, ns, cf) == WorkloadLoop(mm, ns, cf, 1)

-----------------------------------------------------------------------------
(* Spec: one top-level call m.OverallMtlsStatus(nsStatus, meshStatus),      *)
(* executed one frame at a time.  A frame is a call that has been entered;  *)
(* "waiting" says it has made its nested call and returns what that returns.*)

MaxDepth == 4

Frame(fn, ns, mesh) == [fn |-> fn, ns |-> ns, mesh |-> mesh, waiting |-> FALSE]

Top == stack[Len(stack)]

Push(frame) == Append([stack EXCEPT ![Len(stack)].waiting = TRUE], frame)

Pop == SubSeq(stack, 1, Len(stack) - 1)

AtOverall(branch) ==
    /\ pc = "running"
    /\ stack # <<>>
    /\ Top.fn = "OverallMtlsStatus"
    /\ ~Top.waiting
    /\ OverallBranch(m, Top.ns, Top.mesh) = branch

Init ==
    /\ \E allow \in BOOLEAN, auto \in BOOLEAN : m = FlagsOnly(allow, auto)
    /\ conf = DefaultConf
    /\ namespace = ""
    /\ nsM = m
    /\ meshM = m
    /\ nsStatus \in TlsStatusValues
    /\ meshStatus \in TlsStatusValues
    /\ stack = <<>>
    /\ ret = "none"
    /\ inheritedCalls = 0
    /\ pc = "start"
    /\ result = "none"
    /\ NoHostIndex
    /\ NoLeafCall

(* the caller invokes m.OverallMtlsStatus(nsStatus, meshStatus) *)
CallOverall ==
    /\ pc = "start"
    /\ stack' = <<Frame("OverallMtlsStatus", nsStatus, meshStatus)>>
    /\ pc' = "running"
    /\ UNCHANGED <<ctx, idx, leaf, nsStatus, meshStatus, ret, inheritedCalls, result>>

(* status.go:171  if nsStatus.hasDefinedTls() *)
OverallNsDefined ==
    /\ AtOverall("nsDefined")
    /\ ret' = OverallAssigned("nsDefined", Top.ns, Top.mesh)
    /\ stack' = Pop
    /\ UNCHANGED <<ctx, idx, leaf, nsStatus, meshStatus, inheritedCalls, pc, result>>

(* status.go:173  else if nsStatus.hasPartialTlsConfig(): call inheritedOverallStatus *)
OverallCallInherited ==
    /\ AtOverall("inherited")
    /\ Len(stack) < MaxDepth
    /\ stack' = Push(Frame("inheritedOverallStatus", Top.ns, Top.mesh))
    /\ inheritedCalls' = inheritedCalls + 1
    /\ UNCHANGED <<ctx, idx, leaf, nsStatus, meshStatus, ret, pc, result>>

(* status.go:175  else if meshStatus.hasDefinedTls() *)
OverallMeshDefined ==
    /\ AtOverall("meshDefined")
    /\ ret' = OverallAssigned("meshDefined", Top.ns, Top.mesh)
    /\ stack' = Pop
    /\ UNCHANGED <<ctx, idx, leaf, nsStatus, meshStatus, inheritedCalls, pc, result>>

(* status.go:177  else if meshStatus.hasNoConfig() *)
OverallNoConfig ==
    /\ AtOverall("noConfig")
    /\ ret' = OverallAssigned("noConfig", Top.ns, Top.mesh)
    /\ stack' = Pop
    /\ UNCHANGED <<ctx, idx, leaf, nsStatus, meshStatus, inheritedCalls, pc, result>>

(* status.go:179  else if meshStatus.hasPartialDisabledConfig() *)
OverallPartialDisabled ==
    /\ AtOverall("partialDisabled")
    /\ ret' = OverallAssigned("partialDisabled", Top.ns, Top.mesh)
    /\ stack' = Pop
    /\ UNCHANGED <<ctx, idx, leaf, nsStatus, meshStatus, inheritedCalls, pc, result>>

(* status.go:181  else if meshStatus.hasHalfTlsConfigDefined(...) *)
OverallHalfDefined ==
    /\ AtOverall("half")
    /\ ret' = OverallAssigned("half", Top.ns, Top.mesh)
    /\ stack' = Pop
    /\ UNCHANGED <<ctx, idx, leaf, nsStatus, meshStatus, inheritedCalls, pc, result>>

(* status.go:183  else if !m.AutoMtlsEnabled && meshStatus.hasPartialTlsConfig() *)
OverallPartial ==
    /\ AtOverall("partial")
    /\ ret' = OverallAssigned("partial", Top.ns, Top.mesh)
    /\ stack' = Pop
    /\ UNCHANGED <<ctx, idx, leaf, nsStatus, meshStatus, inheritedCalls, pc, result>>

(* status.go:170,186  no test succeeded: status keeps its initial value *)
OverallFallback ==
    /\ AtOverall("fallback")
    /\ ret' = OverallAssigned("fallback", Top.ns, Top.mesh)
    /\ stack' = Pop
    /\ UNCHANGED <<ctx, idx, leaf, nsStatus, meshStatus, inheritedCalls, pc, result>>

(* status.go:189-201  inheritedOverallStatus builds the hybrid pair and calls OverallMtlsStatus *)
InheritedCallOverall ==
    /\ pc = "running"
    /\ stack # <<>>
    /\ Top.fn = "inheritedOverallStatus"
    /\ ~Top.waiting
    /\ Len(stack) < MaxDepth
    /\ LET args == inheritedArgs(m, Top.ns, Top.mesh)
       IN  stack' = Push(Frame("OverallMtlsStatus", args[1], args[2]))
    /\ UNCHANGED <<ctx, idx, leaf, nsStatus, meshStatus, ret, inheritedCalls, pc, result>>

(* a frame whose nested call has returned returns the same value *)
ReturnNested ==
    /\ pc = "running"
    /\ stack # <<>>
    /\ Top.waiting
    /\ ret # "none"
    /\ stack' = Pop
    /\ UNCHANGED <<ctx, idx, leaf, nsStatus, meshStatus, ret, inheritedCalls, pc, result>>

(* the top-level call has returned to the caller *)
ReturnToCaller ==
    /\ pc = "running"
    /\ stack = <<>>
    /\ result' = ret
    /\ pc' = "done"
    /\ UNCHANGED <<ctx, idx, leaf, nsStatus, meshStatus, stack, ret, inheritedCalls>>

Next ==
    \/ CallOverall
    \/ OverallNsDefined
    \/ OverallCallInherited
    \/ OverallMeshDefined
    \/ OverallNoConfig
    \/ OverallPartialDisabled
    \/ OverallHalfDefined
    \/ OverallPartial
    \/ OverallFallback
    \/ InheritedCallOverall
    \/ ReturnNested
    \/ ReturnToCaller

Spec == Init /\ [][Next]_vars

(* The goroutine executing the call is always scheduled again. *)
LiveSpec == Spec /\ WF_vars(Next)

-----------------------------------------------------------------------------
(* ResolveSpec: the namespace status and the mesh status are computed from  *)
(* the policies of each scope, then combined by OverallMtlsStatus.          *)

(* at most one policy of each kind per scope, every mode of each *)
OnePeerAuthentication ==
    {<<>>} \cup {<<PeerAuthentication(FALSE, {}, mode)>> : mode \in {"nil"} \cup PAModes}

OneDestinationRule(ns, host) ==
    {<<>>} \cup {<<DestinationRule(ns, host, mode)>> : mode \in {"nil"} \cup DRModes}

ResolveInit ==
    /\ conf = DefaultConf
    /\ namespace = "bookinfo"
    /\ \E allow \in BOOLEAN, auto \in BOOLEAN :
          /\ m = FlagsOnly(allow, auto)
          /\ \E pas \in OnePeerAuthentication,
                drs \in OneDestinationRule("bookinfo", "*.bookinfo.svc.cluster.local") :
                nsM = MtlsStatus(allow, auto, drs, NoLabels, pas, <<>>)
          /\ \E pas \in OnePeerAuthentication,
                drs \in OneDestinationRule("istio-system", "*.local") :
                meshM = MtlsStatus(allow, auto, drs, NoLabels, pas, <<>>)
    /\ nsStatus = ZeroTls
    /\ meshStatus = ZeroTls
    /\ stack = <<>>
    /\ ret = "none"
    /\ inheritedCalls = 0
    /\ pc = "namespace"
    /\ result = "none"
    /\ NoHostIndex
    /\ NoLeafCall

(* nsStatus := nsM.NamespaceMtlsStatus(namespace, conf) *)
CallNamespaceMtlsStatus ==
    /\ pc = "namespace"
    /\ nsStatus' = NamespaceMtlsStatus(nsM, namespace, conf)
    /\ pc' = "mesh"
    /\ UNCHANGED <<ctx, idx, leaf, meshStatus, stack, ret, inheritedCalls, result>>

(* meshStatus := meshM.MeshMtlsStatus() *)
CallMeshMtlsStatus ==
    /\ pc = "mesh"
    /\ meshStatus' = MeshMtlsStatus(meshM)
    /\ pc' = "start"
    /\ UNCHANGED <<ctx, idx, leaf, nsStatus, stack, ret, inheritedCalls, result>>

ResolveNext ==
    \/ CallNamespaceMtlsStatus
    \/ CallMeshMtlsStatus
    \/ Next

ResolveSpec == ResolveInit /\ [][ResolveNext]_vars

-----------------------------------------------------------------------------
(* WorkloadSpec: one call m.WorkloadMtlsStatus(namespace, conf) on a         *)
(* receiver holding the workload's labels, a list of PeerAuthentications and *)
(* the DestinationRules and Services known in the namespace.                 *)

MaxPAs == 2

AppReviews == {<<"app", "reviews">>}
AppRatings == {<<"app", "ratings">>}
AppReviewsV1 == {<<"app", "reviews">>, <<"version", "v1">>}

WorkloadPAs ==
    {PeerAuthentication(FALSE, {}, "STRICT"),
     PeerAuthentication(TRUE, {}, "STRICT"),
     PeerAuthentication(TRUE, {}, "DISABLE"),
     PeerAuthentication(TRUE, AppRatings, "STRICT"),
     PeerAuthentication(TRUE, AppReviewsV1, "DISABLE")}
    \cup {PeerAuthentication(TRUE, AppReviews, mode) : mode \in {"nil"} \cup PAModes}

(* the sequences over S of length at most n *)
SeqsUpTo(S, n) == UNION {[1..k -> S] : k \in 0..n}

(* the DestinationRules and Services supplied with the policies *)
WorkloadRuleContexts ==
    [drs : {<<>>} \cup {<<DestinationRule("bookinfo", "reviews.bookinfo.svc.cluster.local", mode)>> :
                            mode \in {"nil"} \cup DRModes},
     svcs : {<<>>, <<Service("reviews", "bookinfo", AppReviews)>>,
             <<Service("reviews", "other-ns", AppReviews)>>}]

WorkloadInit ==
    /\ conf = DefaultConf
    /\ namespace = "bookinfo"
    /\ \E pas \in SeqsUpTo(WorkloadPAs, MaxPAs),
          set \in {AppReviews, AppReviewsV1},
          c \in WorkloadRuleContexts :
          m = MtlsStatus(FALSE, FALSE, c.drs, set, pas, c.svcs)
    /\ nsM = FlagsOnly(FALSE, FALSE)
    /\ meshM = FlagsOnly(FALSE, FALSE)
    /\ nsStatus = ZeroTls
    /\ meshStatus = ZeroTls
    /\ stack = <<>>
    /\ ret = "none"
    /\ inheritedCalls = 0
    /\ pc = "workload"
    /\ result = "none"
    /\ NoHostIndex
    /\ NoLeafCall

(* result := m.WorkloadMtlsStatus(namespace, conf) *)
CallWorkloadMtlsStatus ==
    /\ pc = "workload"
    /\ result' = WorkloadMtlsStatus(m, namespace, conf)
    /\ pc' = "done"
    /\ UNCHANGED <<ctx, idx, leaf, nsStatus, meshStatus, stack, ret, inheritedCalls>>

WorkloadNext == CallWorkloadMtlsStatus

WorkloadSpec == WorkloadInit /\ [][WorkloadNext]_vars

-----------------------------------------------------------------------------
(* PermissiveSpec: one call m.WorkloadMtlsStatus(namespace, conf) whose      *)
(* deciding PeerAuthentication is PERMISSIVE, with ordered lists of          *)
(* DestinationRules and Services.                                            *)

MaxRules == 2
MaxServices == 2

(* the services known to the caller: in and out of the namespace, with      *)
(* selectors that the policy's selector matches, does not match, or empty    *)
PermissiveServices ==
    {Service("reviews", "bookinfo", AppReviews),
     Service("reviews-v1", "bookinfo", AppReviewsV1),
     Service("ratings", "bookinfo", AppRatings),
     Service("ratings", "bookinfo", {}),
     Service("reviews", "other-ns", AppReviews)}

(* rules on those services' hosts, in the spellings FilterByHost accepts *)
PermissiveHosts ==
    {"reviews.bookinfo.svc.cluster.local", "reviews-v1.bookinfo",
     "ratings.bookinfo.svc", "reviews.other-ns.svc.cluster.local"}

PermissiveRules ==
    {DestinationRule("bookinfo", host, mode) : host \in PermissiveHosts, mode \in DRModes}

PermissiveInit ==
    /\ conf = DefaultConf
    /\ namespace = "bookinfo"
    /\ \E drs \in SeqsUpTo(PermissiveRules, MaxRules),
          svcs \in SeqsUpTo(PermissiveServices, MaxServices) :
          m = MtlsStatus(FALSE, FALSE, drs, AppReviewsV1,
                         <<PeerAuthentication(TRUE, AppReviews, "PERMISSIVE")>>, svcs)
    /\ nsM = FlagsOnly(FALSE, FALSE)
    /\ meshM = FlagsOnly(FALSE, FALSE)
    /\ nsStatus = ZeroTls
    /\ meshStatus = ZeroTls
    /\ stack = <<>>
    /\ ret = "none"
    /\ inheritedCalls = 0
    /\ pc = "workload"
    /\ result = "none"
    /\ NoHostIndex
    /\ NoLeafCall

PermissiveSpec == PermissiveInit /\ [][WorkloadNext]_vars

-----------------------------------------------------------------------------
(* ScopeSpec: NamespaceMtlsStatus, MeshMtlsStatus and OverallMtlsStatus on a *)
(* receiver holding ordered lists of PeerAuthentications and                 *)
(* DestinationRules, under either identity domain.                           *)

MaxScopeRules == 2
MaxScopePAs == 2

(* conf.ExternalServices.Istio.IstioIdentityDomain set by the caller *)
CustomConf == [IstioIdentityDomain |-> "svc.my-custom.domain"]

(* rules on the namespace-wide host of either identity domain, on another   *)
(* namespace's wildcard and on the mesh-wide host; "nil" declares no TLS      *)
ScopeRules ==
    {DestinationRule("bookinfo", host, mode) :
        host \in {"*.bookinfo.svc.cluster.local", "*.local"},
        mode \in {"nil", "DISABLE", "ISTIO_MUTUAL"}}
    \cup {DestinationRule("bookinfo", host, "ISTIO_MUTUAL") :
          host \in {"*.bookinfo.svc.my-custom.domain", "*.other-ns.svc.cluster.local"}}

(* policies without a selector, with a selector that has no matchLabels, and *)
(* with a populated selector                                                 *)
ScopePAs ==
    {PeerAuthentication(FALSE, {}, mode) : mode \in {"nil", "UNSET", "STRICT"}}
    \cup {PeerAuthentication(TRUE, {}, "STRICT"),
          PeerAuthentication(TRUE, AppReviews, "DISABLE")}

ScopeInit ==
    /\ conf \in {DefaultConf, CustomConf}
    /\ namespace = "bookinfo"
    /\ \E allow \in BOOLEAN, auto \in BOOLEAN,
          drs \in SeqsUpTo(ScopeRules, MaxScopeRules),
          pas \in SeqsUpTo(ScopePAs, MaxScopePAs) :
          /\ m = FlagsOnly(allow, auto)
          /\ nsM = MtlsStatus(allow, auto, drs, NoLabels, pas, <<>>)
          /\ meshM = nsM
    /\ nsStatus = ZeroTls
    /\ meshStatus = ZeroTls
    /\ stack = <<>>
    /\ ret = "none"
    /\ inheritedCalls = 0
    /\ pc = "namespace"
    /\ result = "none"
    /\ NoHostIndex
    /\ NoLeafCall

(* result := m.OverallMtlsStatus(nsStatus, meshStatus), as one step *)
CallOverallMtlsStatus ==
    /\ pc = "start"
    /\ result' = OverallMtlsStatus(m, nsStatus, meshStatus)
    /\ pc' = "done"
    /\ UNCHANGED <<ctx, idx, leaf, nsStatus, meshStatus, stack, ret, inheritedCalls>>

ScopeNext ==
    \/ CallNamespaceMtlsStatus
    \/ CallMeshMtlsStatus
    \/ CallOverallMtlsStatus

ScopeSpec == ScopeInit /\ [][ScopeNext]_vars

-----------------------------------------------------------------------------
(* DomainSpec: the four resolution methods called in turn on one receiver   *)
(* that holds at most one policy of each kind, of every mode.                *)

OneWorkloadPeerAuthentication ==
    {<<>>} \cup {<<PeerAuthentication(TRUE, AppReviews, mode)>> : mode \in {"nil"} \cup PAModes}

DomainInit ==
    /\ conf = DefaultConf
    /\ namespace = "bookinfo"
    /\ \E allow \in BOOLEAN, auto \in BOOLEAN,
          scopePa \in OnePeerAuthentication,
          workloadPa \in OneWorkloadPeerAuthentication,
          nsDr \in OneDestinationRule("bookinfo", "*.bookinfo.svc.cluster.local"),
          meshDr \in OneDestinationRule("istio-system", "*.local"),
          svcDr \in OneDestinationRule("bookinfo", "reviews.bookinfo.svc.cluster.local"),
          svcs \in {<<>>, <<Service("reviews", "bookinfo", AppReviews)>>} :
          m = MtlsStatus(allow, auto, nsDr \o meshDr \o svcDr, AppReviewsV1,
                         scopePa \o workloadPa, svcs)
    /\ nsM = m
    /\ meshM = m
    /\ nsStatus = ZeroTls
    /\ meshStatus = ZeroTls
    /\ stack = <<>>
    /\ ret = "none"
    /\ inheritedCalls = 0
    /\ pc = "workload"
    /\ result = "none"
    /\ NoHostIndex
    /\ NoLeafCall

(* result := m.WorkloadMtlsStatus(namespace, conf), before the scope-wide calls *)
CallWorkloadThenScopes ==
    /\ pc = "workload"
    /\ result' = WorkloadMtlsStatus(m, namespace, conf)
    /\ pc' = "namespace"
    /\ UNCHANGED <<ctx, idx, leaf, nsStatus, meshStatus, stack, ret, inheritedCalls>>

DomainNext ==
    \/ CallWorkloadThenScopes
    \/ CallNamespaceMtlsStatus
    \/ CallMeshMtlsStatus
    \/ CallOverallMtlsStatus

DomainSpec == DomainInit /\ [][DomainNext]_vars

-----------------------------------------------------------------------------
(* HostsSpec: hosts := NewKubeServiceHosts(services, conf, defaultExportTo), *)
(* then a HasHost or IsValidForNamespace lookup on it (lookups only read the *)
(* index, so one lookup per behaviour shows them all).                       *)

MaxHostServices == 2

(* the values of the exportTo annotation: same namespace, nobody, white      *)
(* space only                                                                *)
HostAnnotations == {<<".">>, <<"~">>, <<" ">>}

(* services of two namespaces, two of them of the same name; Kubernetes      *)
(* names and namespaces are DNS labels and hold no dot                       *)
HostServices ==
    {AnnotatedService(nn[1], nn[2], FALSE, <<>>) :
        nn \in {<<"reviews", "bookinfo">>, <<"ratings", "bookinfo">>, <<"reviews", "other-ns">>}}
    \cup {AnnotatedService(nn[1], nn[2], TRUE, value) :
        nn \in {<<"reviews", "bookinfo">>, <<"ratings", "bookinfo">>, <<"reviews", "other-ns">>},
        value \in HostAnnotations}

(* the identity domains: "svc." followed by the cluster's domain *)
HostConfs == {DefaultConf, CustomConf}

(* the three spellings of a service under a configuration *)
Spellings(svc, cf) ==
    {svc.Name \o "." \o svc.Namespace \o "." \o cf.IstioIdentityDomain,
     svc.Name \o "." \o svc.Namespace \o ".svc",
     svc.Name \o "." \o svc.Namespace}

(* the hosts looked up: every spelling of every service under either domain, *)
(* and names that are no spelling of any                                     *)
QueryHosts ==
    UNION {Spellings(svc, cf) : svc \in HostServices, cf \in HostConfs}
    \cup {"reviews", "nonexistent.bookinfo.svc.cluster.local"}

ViewerNamespaces == {"bookinfo", "other-ns", "istio-system"}

HostsInit ==
    /\ conf \in HostConfs
    /\ namespace = ""
    /\ m = FlagsOnly(FALSE, FALSE)
    /\ nsM = m
    /\ meshM = m
    /\ nsStatus = ZeroTls
    /\ meshStatus = ZeroTls
    /\ stack = <<>>
    /\ ret = "none"
    /\ inheritedCalls = 0
    /\ pc = "hosts"
    /\ result = "none"
    /\ services \in SeqsUpTo(HostServices, MaxHostServices)
    /\ defaultExportTo \in {<<>>, <<".">>}
    /\ hosts = EmptyHosts
    /\ query = NoQuery
    /\ NoLeafCall

(* hosts := NewKubeServiceHosts(services, conf, defaultExportTo) *)
CallNewKubeServiceHosts ==
    /\ pc = "hosts"
    /\ hosts' = NewKubeServiceHosts(services, conf, defaultExportTo)
    /\ pc' = "built"
    /\ UNCHANGED <<ctx, leaf, nsStatus, meshStatus, stack, ret, inheritedCalls, result,
                   services, defaultExportTo, query>>

(* hosts.HasHost(host) *)
CallHasHost ==
    /\ pc = "built"
    /\ \E host \in QueryHosts :
          query' = [fn |-> "HasHost", host |-> host, viewer |-> "",
                    answer |-> HasHost(hosts, host)]
    /\ pc' = "asked"
    /\ UNCHANGED <<ctx, leaf, nsStatus, meshStatus, stack, ret, inheritedCalls, result,
                   services, defaultExportTo, hosts>>

(* hosts.IsValidForNamespace(host, viewer) *)
CallIsValidForNamespace ==
    /\ pc = "built"
    /\ \E host \in QueryHosts, viewer \in ViewerNamespaces :
          query' = [fn |-> "IsValidForNamespace", host |-> host, viewer |-> viewer,
                    answer |-> IsValidForNamespace(hosts, host, viewer)]
    /\ pc' = "asked"
    /\ UNCHANGED <<ctx, leaf, nsStatus, meshStatus, stack, ret, inheritedCalls, result,
                   services, defaultExportTo, hosts>>

HostsNext ==
    \/ CallNewKubeServiceHosts
    \/ CallHasHost
    \/ CallIsValidForNamespace

HostsSpec == HostsInit /\ [][HostsNext]_vars

-----------------------------------------------------------------------------
(* The MtlsStatus methods and the host index at rest, for the specifications *)
(* of the stateless helpers.                                                 *)
NoResolverCall ==
    /\ conf = DefaultConf
    /\ namespace = ""
    /\ m = FlagsOnly(FALSE, FALSE)
    /\ nsM = m
    /\ meshM = m
    /\ nsStatus = ZeroTls
    /\ meshStatus = ZeroTls
    /\ stack = <<>>
    /\ ret = "none"
    /\ inheritedCalls = 0
    /\ result = "none"

(* AnnotationSpec: NewKubeServiceHosts over one service whose exportTo       *)
(* annotation is absent or any short value, under several mesh defaults.     *)

MaxPieces == 3

(* the pieces of an annotation value: comma, white space and tokens *)
AnnotationPieces == {",", " ", ".", "~", "other-ns"}

AnnotationServices ==
    {AnnotatedService("reviews", "bookinfo", FALSE, <<>>)}
        \cup {AnnotatedService("reviews", "bookinfo", TRUE, value) :
                  value \in SeqsUpTo(AnnotationPieces, MaxPieces)}

AnnotationInit ==
    /\ NoResolverCall
    /\ pc = "hosts"
    /\ services \in {<<svc>> : svc \in AnnotationServices}
    /\ defaultExportTo \in {<<>>, <<".">>, <<"~">>, <<"other-ns">>}
    /\ hosts = EmptyHosts
    /\ query = NoQuery
    /\ NoLeafCall

AnnotationSpec == AnnotationInit /\ [][HostsNext]_vars

(* ExportSpec: one call IsExportedTo(exportList, resourceNs, viewerNs).      *)

MaxExportLen == 3

(* the tokens of an export list: the three special ones and namespace names *)
ExportTokens == {"*", ".", "~", "bookinfo", "other-ns"}

ExportInit ==
    /\ NoResolverCall
    /\ NoHostIndex
    /\ pc = "export"
    /\ exportList \in SeqsUpTo(ExportTokens, MaxExportLen)
    /\ resourceNs \in {"bookinfo", "other-ns"}
    /\ viewerNs \in ViewerNamespaces
    /\ exported = FALSE
    /\ portName = <<>>
    /\ protocol = <<>>
    /\ valid = FALSE
    /\ vsProtocol = "none"

(* exported := IsExportedTo(exportList, resourceNs, viewerNs) *)
CallIsExportedTo ==
    /\ pc = "export"
    /\ exported' = IsExportedTo(exportList, resourceNs, viewerNs)
    /\ pc' = "exported"
    /\ UNCHANGED <<ctx, idx, nsStatus, meshStatus, stack, ret, inheritedCalls, result,
                   exportList, resourceNs, viewerNs, portName, protocol, valid, vsProtocol>>

ExportNext == CallIsExportedTo

ExportSpec == ExportInit /\ [][ExportNext]_vars

(* PortSpec: one call of MatchPortNameRule(portName, protocol) or of         *)
(* mapPortToVirtualServiceProtocol(protocol).                                *)

MaxSuffixLen == 2

(* Port.Protocol values, in several letter cases, and the empty string *)
PortProtocols ==
    {<<>>,
     <<"t", "c", "p">>, <<"T", "C", "P">>, <<"T", "c", "p">>,
     <<"u", "d", "p">>, <<"U", "D", "P">>,
     <<"t", "l", "s">>, <<"T", "L", "S">>,
     <<"h", "t", "t", "p">>, <<"H", "T", "T", "P">>, <<"H", "t", "t", "p">>,
     <<"H", "T", "T", "P", "2">>, <<"H", "T", "T", "P", "S">>,
     <<"G", "R", "P", "C">>, <<"g", "r", "p", "c">>}

(* Port.Name values: a start, then up to MaxSuffixLen further characters *)
PortNameHeads ==
    {<<>>, <<"t", "l">>, <<"t", "l", "s">>, <<"T", "L", "S">>,
     <<"h", "t", "t", "p">>, <<"H", "T", "T", "P">>, <<"t", "c", "p">>}

PortNames ==
    {head \o rest : head \in PortNameHeads,
                    rest \in SeqsUpTo({"-", "s", "2"}, MaxSuffixLen)}

PortInit ==
    /\ NoResolverCall
    /\ NoHostIndex
    /\ pc = "port"
    /\ portName \in PortNames
    /\ protocol \in PortProtocols
    /\ valid = FALSE
    /\ vsProtocol = "none"
    /\ exportList = <<>>
    /\ resourceNs = ""
    /\ viewerNs = ""
    /\ exported = FALSE

(* ValidatePort / ValidateServicePort:                                       *)
(* valid := MatchPortNameRule(portDef.Name, portDef.Protocol)                *)
CallMatchPortNameRule ==
    /\ pc = "port"
    /\ valid' = MatchPortNameRule(portName, protocol)
    /\ pc' = "validated"
    /\ UNCHANGED <<ctx, idx, nsStatus, meshStatus, stack, ret, inheritedCalls, result,
                   exportList, resourceNs, viewerNs, exported, portName, protocol,
                   vsProtocol>>

(* protocol := mapPortToVirtualServiceProtocol(port.Protocol) *)
CallMapPortToVirtualServiceProtocol ==
    /\ pc = "port"
    /\ vsProtocol' = mapPortToVirtualServiceProtocol(Spell(protocol))
    /\ pc' = "mapped"
    /\ UNCHANGED <<ctx, idx, nsStatus, meshStatus, stack, ret, inheritedCalls, result,
                   exportList, resourceNs, viewerNs, exported, portName, protocol,
                   valid>>

PortNext ==
    \/ CallMatchPortNameRule
    \/ CallMapPortToVirtualServiceProtocol

PortSpec == PortInit /\ [][PortNext]_vars

(* The frame-by-frame execution returns what the function returns. *)
ExecutionAgrees ==
    pc = "done" => result = OverallMtlsStatus(m, nsStatus, meshStatus)

-----------------------------------------------------------------------------
(* Properties *)

(* C1: a fully-defined namespace status always wins: whenever                *)
(* nsStatus.OverallStatus is ENABLED or DISABLED, OverallMtlsStatus returns  *)
(* exactly it, for every meshStatus and both flags.                          *)
C1_NsDefinedWins ==
    (pc = "done" /\ nsStatus.OverallStatus \in {MTLSEnabled, MTLSDisabled})
        => result = nsStatus.OverallStatus

C1_Witness ==
    /\ pc = "done"
    /\ nsStatus.OverallStatus = MTLSDisabled
    /\ meshStatus.OverallStatus = MTLSEnabled
    /\ result = MTLSDisabled

(* the hybrid pair of the claim: the namespace's mode if non-empty, else the mesh's *)
C2_dr == IF nsStatus.DestinationRuleStatus # ""
         THEN nsStatus.DestinationRuleStatus ELSE meshStatus.DestinationRuleStatus

C2_pa == IF nsStatus.PeerAuthenticationStatus # ""
         THEN nsStatus.PeerAuthenticationStatus ELSE meshStatus.PeerAuthenticationStatus

(* C2: a PARTIALLY_ENABLED namespace status inherits only its missing half:  *)
(* the result is OverallMtlsStatus({}, finalStatus(dr', pa')), and replacing *)
(* meshStatus by any status that differs only in OverallStatus or in a field *)
(* whose namespace counterpart is non-empty gives the same result.           *)
C2_InheritsMissingHalf ==
    (pc = "done" /\ nsStatus.OverallStatus = MTLSPartiallyEnabled) =>
        /\ result = OverallMtlsStatus(m, ZeroTls, finalStatus(m, C2_dr, C2_pa))
        /\ \A other \in TlsStatusValues :
              ( /\ nsStatus.DestinationRuleStatus = ""
                     => other.DestinationRuleStatus = meshStatus.DestinationRuleStatus
                /\ nsStatus.PeerAuthenticationStatus = ""
                     => other.PeerAuthenticationStatus = meshStatus.PeerAuthenticationStatus )
              => OverallMtlsStatus(m, nsStatus, other) = result

C2_Witness ==
    /\ pc = "done"
    /\ ~m.AutoMtlsEnabled
    /\ nsStatus = TlsStatus("", "STRICT", MTLSPartiallyEnabled)
    /\ meshStatus = TlsStatus("ISTIO_MUTUAL", "DISABLE", MTLSDisabled)
    /\ result = MTLSEnabled

(* C3: the recursion OverallMtlsStatus -> inheritedOverallStatus ->          *)
(* OverallMtlsStatus terminates for every pair of inputs and both flags,     *)
(* inheritedOverallStatus is entered at most once per top-level call, and    *)
(* every nested OverallMtlsStatus call gets the empty namespace status.      *)
C3_RecursionTerminates ==
    /\ <>(pc = "done")
    /\ [](inheritedCalls <= 1)
    /\ [](\A i \in 2..Len(stack) :
            stack[i].fn = "OverallMtlsStatus" => stack[i].ns = ZeroTls)

C3_Witness == pc = "done" /\ inheritedCalls = 1

(* the decision table of the claim *)
C4_Table(dr, pa, auto, allow) ==
    IF (pa = "STRICT" \/ (pa = "PERMISSIVE" /\ allow))
       /\ (dr \in {"ISTIO_MUTUAL", "MUTUAL"} \/ (dr = "" /\ auto))
    THEN MTLSEnabled
    ELSE IF pa = "DISABLE" /\ (dr = "DISABLE" \/ (dr = "" /\ auto)) THEN MTLSDisabled
    ELSE IF pa = "" /\ dr = "" THEN MTLSNotEnabled
    ELSE MTLSPartiallyEnabled

(* C4: finalStatus implements the decision table for every DestinationRule   *)
(* mode, every PeerAuthentication mode and both flags, and returns the two   *)
(* modes unchanged in its DestinationRuleStatus / PeerAuthenticationStatus.  *)
C4_ResolveTable ==
    pc # "namespace" =>
        LET dr == hasDesinationRuleEnablingNamespacemTLS(nsM, namespace, conf)
            pa == hasPeerAuthnNamespacemTLSDefinition(nsM)
        IN  nsStatus = TlsStatus(dr, pa,
                                 C4_Table(dr, pa, nsM.AutoMtlsEnabled, nsM.AllowPermissive))

C4_Witness ==
    /\ pc = "mesh"
    /\ nsM.AutoMtlsEnabled
    /\ nsStatus = TlsStatus("", "DISABLE", MTLSDisabled)

(* the mesh rules of the claim, first match wins *)
C5_MeshRules(mesh, auto, allow) ==
    IF mesh.OverallStatus \in {MTLSEnabled, MTLSDisabled} THEN mesh.OverallStatus
    ELSE IF mesh.DestinationRuleStatus = "" /\ mesh.PeerAuthenticationStatus = ""
         THEN MTLSNotEnabled
    ELSE IF \/ mesh.PeerAuthenticationStatus = "DISABLE" /\ mesh.DestinationRuleStatus = ""
            \/ mesh.DestinationRuleStatus = "DISABLE" /\ mesh.PeerAuthenticationStatus = ""
         THEN MTLSDisabled
    ELSE IF auto
            /\ ( (mesh.PeerAuthenticationStatus = "STRICT" /\ mesh.DestinationRuleStatus = "")
                 \/ (mesh.DestinationRuleStatus \in {"ISTIO_MUTUAL", "MUTUAL"}
                     /\ mesh.PeerAuthenticationStatus = "")
                 \/ (allow /\ mesh.PeerAuthenticationStatus = "PERMISSIVE"
                     /\ mesh.DestinationRuleStatus = "") )
         THEN MTLSEnabled
    ELSE MTLSPartiallyEnabled

(* C5: when nsStatus is neither fully defined nor PARTIALLY_ENABLED, the     *)
(* result is decided by the mesh rules in their order, first match wins.     *)
C5_MeshRulesInOrder ==
    (pc = "done"
     /\ nsStatus.OverallStatus \notin {MTLSEnabled, MTLSDisabled, MTLSPartiallyEnabled})
        => result = C5_MeshRules(meshStatus, m.AutoMtlsEnabled, m.AllowPermissive)

C5_Witness ==
    /\ pc = "done"
    /\ m.AutoMtlsEnabled /\ m.AllowPermissive
    /\ nsStatus.OverallStatus = MTLSNotEnabled
    /\ meshStatus = TlsStatus("", "PERMISSIVE", MTLSPartiallyEnabled)
    /\ result = MTLSEnabled

(* the inputs of the end-to-end example *)
C6_Case ==
    /\ nsM.PeerAuthentications = <<>>
    /\ nsM.DestinationRules = <<>>
    /\ meshM.PeerAuthentications = <<PeerAuthentication(FALSE, {}, "STRICT")>>
    /\ meshM.DestinationRules = <<>>
    /\ m.AutoMtlsEnabled

(* C6 as stated: with no namespace policy, a mesh PeerAuthentication STRICT, *)
(* no mesh DestinationRule and autoMtlsEnabled, Overall is ENABLED and it is *)
(* rule 6 (hasHalfTlsConfigDefined) that decides it.                         *)
C6_ViaRule6 ==
    (C6_Case /\ pc = "done") =>
        /\ result = MTLSEnabled
        /\ OverallBranch(m, nsStatus, meshStatus) = "half"

(* C6 amended: on those inputs Overall is ENABLED and it is rule 3 (the mesh *)
(* status is fully defined) that decides it, in the top-level call and in    *)
(* the normalising call of MeshMtlsStatus; inheritedOverallStatus is not     *)
(* entered.                                                                  *)
C6_ViaRule3 ==
    (C6_Case /\ pc = "done") =>
        /\ result = MTLSEnabled
        /\ meshStatus = TlsStatus("", "STRICT", MTLSEnabled)
        /\ OverallBranch(m, nsStatus, meshStatus) = "meshDefined"
        /\ OverallBranch(meshM, ZeroTls, finalStatus(meshM, "", "STRICT")) = "meshDefined"
        /\ inheritedCalls = 0

C6_Witness == C6_Case /\ pc = "done" /\ result = MTLSEnabled

(* the PeerAuthentication mode of each scope, and the effective one *)
C7_nsPa == hasPeerAuthnNamespacemTLSDefinition(nsM)

C7_meshPa == hasPeerAuthnMeshTLSDefinition(meshM)

C7_effectivePa == IF C7_nsPa # "" THEN C7_nsPa ELSE C7_meshPa

(* C7 as stated: with allowPermissive false, if the effective                *)
(* PeerAuthentication mode is PERMISSIVE then none of NamespaceMtlsStatus,   *)
(* MeshMtlsStatus and OverallMtlsStatus of the two returns ENABLED.          *)
C7_PermissiveNeverEnabled ==
    (pc = "done" /\ ~m.AllowPermissive /\ C7_effectivePa = "PERMISSIVE") =>
        /\ nsStatus.OverallStatus # MTLSEnabled
        /\ meshStatus.OverallStatus # MTLSEnabled
        /\ result # MTLSEnabled

(* C7 amended: with allowPermissive false, NamespaceMtlsStatus is not        *)
(* ENABLED when the namespace's PeerAuthentication mode is PERMISSIVE,       *)
(* MeshMtlsStatus is not ENABLED when the mesh's mode is PERMISSIVE, and     *)
(* OverallMtlsStatus of the two is not ENABLED when the effective mode is    *)
(* PERMISSIVE.                                                               *)
C7_PermissiveNeverEnabledPerScope ==
    (pc = "done" /\ ~m.AllowPermissive) =>
        /\ C7_nsPa = "PERMISSIVE" => nsStatus.OverallStatus # MTLSEnabled
        /\ C7_meshPa = "PERMISSIVE" => meshStatus.OverallStatus # MTLSEnabled
        /\ C7_effectivePa = "PERMISSIVE" => result # MTLSEnabled

C7_Witness ==
    /\ pc = "done"
    /\ ~m.AllowPermissive
    /\ C7_nsPa = ""
    /\ meshStatus = TlsStatus("ISTIO_MUTUAL", "PERMISSIVE", MTLSPartiallyEnabled)
    /\ result = MTLSPartiallyEnabled

(* a policy whose non-empty matchLabels selector matches the workload's labels *)
C8_Matches(pa) ==
    pa.HasSelector /\ pa.MatchLabels # {} /\ pa.MatchLabels \subseteq m.MatchingLabels

(* C8 as stated: WorkloadMtlsStatus returns ENABLED whenever a               *)
(* PeerAuthentication whose non-empty matchLabels selector matches the       *)
(* workload's labels has mode STRICT.                                        *)
C8_StrictEnabled ==
    (pc = "done"
     /\ \E i \in 1..Len(m.PeerAuthentications) :
           C8_Matches(m.PeerAuthentications[i]) /\ m.PeerAuthentications[i].Mtls = "STRICT")
        => result = MTLSEnabled

(* the positions, in a list, of the matching policies whose mode is STRICT, *)
(* DISABLE or PERMISSIVE, and the first of them                             *)
C8_Deciding(pas) ==
    {i \in 1..Len(pas) :
        C8_Matches(pas[i]) /\ pas[i].Mtls \in {"STRICT", "DISABLE", "PERMISSIVE"}}

C8_First(S) == CHOOSE i \in S : \A j \in S : i <= j

(* C8 amended: WorkloadMtlsStatus returns ENABLED whenever the first         *)
(* PeerAuthentication, in the supplied order, that matches the workload's    *)
(* labels with a non-empty matchLabels selector and has mode STRICT, DISABLE *)
(* or PERMISSIVE has mode STRICT, for every list of DestinationRules and     *)
(* Services supplied.                                                        *)
C8_FirstStrictEnabled ==
    (pc = "done"
     /\ C8_Deciding(m.PeerAuthentications) # {}
     /\ m.PeerAuthentications[C8_First(C8_Deciding(m.PeerAuthentications))].Mtls = "STRICT")
        => /\ result = MTLSEnabled
           /\ \A c \in WorkloadRuleContexts :
                 WorkloadMtlsStatus([m EXCEPT !.DestinationRules = c.drs,
                                                !.Services = c.svcs],
                                    namespace, conf) = MTLSEnabled

C8_Witness ==
    /\ pc = "done"
    /\ m.PeerAuthentications = <<PeerAuthentication(TRUE, AppRatings, "STRICT"),
                                 PeerAuthentication(TRUE, AppReviews, "STRICT")>>
    /\ m.MatchingLabels = AppReviews
    /\ Len(m.DestinationRules) = 1 /\ m.DestinationRules[1].Tls = "DISABLE"
    /\ Len(m.Services) = 1 /\ m.Services[1].Namespace = "bookinfo"
    /\ result = MTLSEnabled

(* the result when the policies after position f are replaced by tail *)
C9_WithTail(f, tail) ==
    WorkloadMtlsStatus(
        [m EXCEPT !.PeerAuthentications = SubSeq(m.PeerAuthentications, 1, f) \o tail],
        namespace, conf)

C9_Matching(pas) == {i \in 1..Len(pas) : C8_Matches(pas[i])}

(* C9 as stated: the result is decided by the first PeerAuthentication whose *)
(* selector matches, whatever its mode (STRICT, DISABLE, PERMISSIVE or       *)
(* unset): replacing the policies after it by any others leaves the result   *)
(* unchanged.                                                                *)
C9_FirstMatchDecides ==
    (pc = "done" /\ C9_Matching(m.PeerAuthentications) # {}) =>
        LET f == C8_First(C9_Matching(m.PeerAuthentications))
        IN  \A tail \in SeqsUpTo(WorkloadPAs, MaxPAs - f) : C9_WithTail(f, tail) = result

(* C9 amended: the result is decided by the first PeerAuthentication, in the *)
(* supplied order, whose selector matches and whose mode is STRICT, DISABLE  *)
(* or PERMISSIVE (a matching policy with mode UNSET or no mtls block is      *)
(* passed over): replacing the policies after it by any others leaves the    *)
(* result unchanged.                                                         *)
C9_FirstSetModeDecides ==
    (pc = "done" /\ C8_Deciding(m.PeerAuthentications) # {}) =>
        LET f == C8_First(C8_Deciding(m.PeerAuthentications))
        IN  \A tail \in SeqsUpTo(WorkloadPAs, MaxPAs - f) : C9_WithTail(f, tail) = result

C9_Witness ==
    /\ pc = "done"
    /\ m.PeerAuthentications = <<PeerAuthentication(TRUE, AppReviews, "DISABLE"),
                                 PeerAuthentication(TRUE, AppReviews, "STRICT")>>
    /\ m.MatchingLabels = AppReviews
    /\ result = MTLSDisabled

(* the policies with a nil selector, or a selector without matchLabels, of every mode *)
C10_Unselective ==
    {PeerAuthentication(sel, {}, mode) : sel \in BOOLEAN, mode \in {"nil"} \cup PAModes}

C10_Insert(pas, i, pa) == SubSeq(pas, 1, i - 1) \o <<pa>> \o SubSeq(pas, i, Len(pas))

C10_Remove(pas, i) == SubSeq(pas, 1, i - 1) \o SubSeq(pas, i + 1, Len(pas))

C10_With(pas) == WorkloadMtlsStatus([m EXCEPT !.PeerAuthentications = pas], namespace, conf)

(* C10: a PeerAuthentication whose selector is nil, or present with a nil or *)
(* empty matchLabels map, never matches: adding such a policy at any         *)
(* position, or removing one, never changes the result, whatever its mode.   *)
C10_UnselectiveNeverMatches ==
    pc = "done" =>
        /\ \A i \in 1..(Len(m.PeerAuthentications) + 1), pa \in C10_Unselective :
              C10_With(C10_Insert(m.PeerAuthentications, i, pa)) = result
        /\ \A i \in 1..Len(m.PeerAuthentications) :
              m.PeerAuthentications[i] \in C10_Unselective
                  => C10_With(C10_Remove(m.PeerAuthentications, i)) = result

C10_Witness ==
    /\ pc = "done"
    /\ m.PeerAuthentications = <<PeerAuthentication(TRUE, {}, "STRICT"),
                                 PeerAuthentication(TRUE, AppReviews, "DISABLE")>>
    /\ m.MatchingLabels = AppReviews
    /\ result = MTLSDisabled

(* C11: WorkloadMtlsStatus returns NOT_ENABLED when no supplied              *)
(* PeerAuthentication matches the workload's labels (the empty list          *)
(* included), and when the matching PeerAuthentications are PERMISSIVE and   *)
(* the DestinationRule list is empty.                                        *)
C11_NoPolicyNotEnabled ==
    pc = "done" =>
        /\ C9_Matching(m.PeerAuthentications) = {} => result = MTLSNotEnabled
        /\ (/\ C9_Matching(m.PeerAuthentications) # {}
            /\ \A i \in C9_Matching(m.PeerAuthentications) :
                  m.PeerAuthentications[i].Mtls = "PERMISSIVE"
            /\ Len(m.DestinationRules) = 0)
               => result = MTLSNotEnabled

C11_Witness ==
    /\ pc = "done"
    /\ m.PeerAuthentications = <<PeerAuthentication(TRUE, AppRatings, "STRICT"),
                                 PeerAuthentication(TRUE, AppReviews, "PERMISSIVE")>>
    /\ m.MatchingLabels = AppReviewsV1
    /\ Len(m.DestinationRules) = 0
    /\ Len(m.Services) = 1
    /\ result = MTLSNotEnabled

(* a service the PERMISSIVE branch considers: in the namespace of the call, *)
(* with a non-empty selector that holds every label of the policy            *)
C12_Candidate(svc) ==
    /\ svc.Namespace = namespace
    /\ svc.Selector # {}
    /\ m.PeerAuthentications[1].MatchLabels \subseteq svc.Selector

(* the modes of the supplied rules that target the host of a service in S *)
C12_TargetingModes(S) ==
    {m.DestinationRules[i].Tls : i \in
        {k \in 1..Len(m.DestinationRules) :
            \E j \in S : FilterByHost(m.DestinationRules[k].Host,
                                      m.DestinationRules[k].Namespace,
                                      m.Services[j].Name, m.Services[j].Namespace, conf)}}

C12_Candidates == {j \in 1..Len(m.Services) : C12_Candidate(m.Services[j])}

(* C12: in the PERMISSIVE branch with a non-empty DestinationRule list, the  *)
(* result is ENABLED if any rule targeting a candidate service is            *)
(* ISTIO_MUTUAL or MUTUAL, DISABLED only if none of them is mutual and some  *)
(* is DISABLE, and NOT_ENABLED when none has any of those modes; so it does  *)
(* not depend on the order of the services or of the rules.                  *)
C12_MutualWinsAnyOrder ==
    (pc = "done" /\ Len(m.DestinationRules) > 0) =>
        LET modes == C12_TargetingModes(C12_Candidates)
        IN  /\ modes \cap {"ISTIO_MUTUAL", "MUTUAL"} # {} => result = MTLSEnabled
            /\ result = MTLSDisabled =>
                   (modes \cap {"ISTIO_MUTUAL", "MUTUAL"} = {} /\ "DISABLE" \in modes)
            /\ modes \cap {"ISTIO_MUTUAL", "MUTUAL", "DISABLE"} = {}
                   => result = MTLSNotEnabled

(* C13: in the PERMISSIVE branch only services in the namespace of the call, *)
(* with a non-empty selector holding every label of the policy, are          *)
(* candidates: when every supplied DestinationRule targets non-candidate     *)
(* services only, the result is NOT_ENABLED.                                 *)
C13_OnlyCandidatesCount ==
    (pc = "done" /\ C12_TargetingModes(C12_Candidates) = {}) => result = MTLSNotEnabled

C13_Witness ==
    /\ pc = "done"
    /\ m.Services = <<Service("reviews", "other-ns", AppReviews),
                      Service("ratings", "bookinfo", AppRatings)>>
    /\ m.DestinationRules =
           <<DestinationRule("bookinfo", "reviews.other-ns.svc.cluster.local", "ISTIO_MUTUAL"),
             DestinationRule("bookinfo", "ratings.bookinfo.svc", "DISABLE")>>
    /\ result = MTLSNotEnabled

(* the least element of a non-empty set of positions *)
C14_Least(S) == CHOOSE i \in S : \A j \in S : i <= j

C14_nsHost == "*." \o namespace \o "." \o conf.IstioIdentityDomain

(* the TLS mode of the first rule of drs with this host, "" if there is none *)
(* or it declares no TLS settings                                            *)
C14_FirstOnHost(drs, host) ==
    LET S == {i \in 1..Len(drs) : drs[i].Host = host}
    IN  IF S = {} \/ drs[C14_Least(S)].Tls = "nil" THEN "" ELSE drs[C14_Least(S)].Tls

(* the TLS mode of the first rule of drs with this host that declares TLS    *)
(* settings, "" if there is none                                             *)
C14_FirstModeOnHost(drs, host) ==
    LET S == {i \in 1..Len(drs) : drs[i].Host = host /\ drs[i].Tls # "nil"}
    IN  IF S = {} THEN "" ELSE drs[C14_Least(S)].Tls

(* C14 as stated: NamespaceMtlsStatus equals finalStatus(drStatus, paStatus) *)
(* where drStatus is the TLS mode of the first DestinationRule, in supplied  *)
(* order, whose host is exactly "*.<namespace>.<identityDomain>", and is     *)
(* empty if there is none.                                                   *)
C14_FirstRuleOnHost ==
    pc # "namespace" =>
        nsStatus = finalStatus(nsM, C14_FirstOnHost(nsM.DestinationRules, C14_nsHost),
                               hasPeerAuthnNamespacemTLSDefinition(nsM))

(* C14 amended: NamespaceMtlsStatus equals finalStatus(drStatus, paStatus)   *)
(* where drStatus is the TLS mode of the first DestinationRule, in supplied  *)
(* order, whose host is exactly "*.<namespace>.<identityDomain>" and that    *)
(* declares TLS settings, and is empty if there is none; rules for any other *)
(* host never contribute.                                                    *)
C14_FirstRuleWithModeOnHost ==
    pc # "namespace" =>
        /\ nsStatus = finalStatus(nsM, C14_FirstModeOnHost(nsM.DestinationRules, C14_nsHost),
                                  hasPeerAuthnNamespacemTLSDefinition(nsM))
        /\ nsStatus = NamespaceMtlsStatus(
                          [nsM EXCEPT !.DestinationRules =
                              SelectSeq(nsM.DestinationRules,
                                        LAMBDA dr : dr.Host = C14_nsHost)],
                          namespace, conf)

C14_Witness ==
    /\ pc # "namespace"
    /\ conf = DefaultConf
    /\ ~nsM.AllowPermissive
    /\ nsM.DestinationRules =
           <<DestinationRule("bookinfo", "*.local", "DISABLE"),
             DestinationRule("bookinfo", "*.bookinfo.svc.cluster.local", "ISTIO_MUTUAL")>>
    /\ nsM.PeerAuthentications = <<PeerAuthentication(FALSE, {}, "STRICT")>>
    /\ nsStatus = TlsStatus("ISTIO_MUTUAL", "STRICT", MTLSEnabled)

(* the mode of the first policy of pas that has no selector and an mtls      *)
(* block, "" if there is none                                                *)
C15_FirstPolicyMode(pas) ==
    LET S == {i \in 1..Len(pas) : ~pas[i].HasSelector /\ pas[i].Mtls # "nil"}
    IN  IF S = {} THEN "" ELSE pas[C14_Least(S)].Mtls

(* the policies that carry a selector: matchLabels populated or not, any mode *)
C15_Selective ==
    {PeerAuthentication(TRUE, labels, mode) :
        labels \in {{}, AppReviews}, mode \in {"nil"} \cup PAModes}

C15_Namespace(pas) ==
    NamespaceMtlsStatus([nsM EXCEPT !.PeerAuthentications = pas], namespace, conf)

C15_Mesh(pas) == MeshMtlsStatus([meshM EXCEPT !.PeerAuthentications = pas])

(* C15: in NamespaceMtlsStatus and MeshMtlsStatus paStatus is the mode of    *)
(* the first policy, in order, that has no selector at all and has an mTLS   *)
(* mode; a policy with a selector present contributes nothing, so adding or  *)
(* removing such policies never changes either result.                       *)
C15_SelectiveNeverScopeWide ==
    pc \in {"start", "done"} =>
        /\ nsStatus.PeerAuthenticationStatus = C15_FirstPolicyMode(nsM.PeerAuthentications)
        /\ meshStatus.PeerAuthenticationStatus = C15_FirstPolicyMode(meshM.PeerAuthentications)
        /\ \A i \in 1..(Len(nsM.PeerAuthentications) + 1), pa \in C15_Selective :
              /\ C15_Namespace(C10_Insert(nsM.PeerAuthentications, i, pa)) = nsStatus
              /\ C15_Mesh(C10_Insert(meshM.PeerAuthentications, i, pa)) = meshStatus
        /\ \A i \in 1..Len(nsM.PeerAuthentications) :
              nsM.PeerAuthentications[i] \in C15_Selective =>
                  /\ C15_Namespace(C10_Remove(nsM.PeerAuthentications, i)) = nsStatus
                  /\ C15_Mesh(C10_Remove(meshM.PeerAuthentications, i)) = meshStatus

C15_Witness ==
    /\ pc = "done"
    /\ nsM.PeerAuthentications = <<PeerAuthentication(TRUE, {}, "STRICT"),
                                   PeerAuthentication(FALSE, {}, "UNSET")>>
    /\ nsStatus.PeerAuthenticationStatus = "UNSET"
    /\ meshStatus.PeerAuthenticationStatus = "UNSET"

(* the mode of the first policy of pas that has no selector, "" if there is *)
(* none or it has no mtls block                                              *)
C16_FirstSelectorless(pas) ==
    LET S == {i \in 1..Len(pas) : ~pas[i].HasSelector}
    IN  IF S = {} \/ pas[C14_Least(S)].Mtls = "nil" THEN "" ELSE pas[C14_Least(S)].Mtls

C16_Mesh(drStatus, paStatus) ==
    TlsStatus(drStatus, paStatus,
              OverallMtlsStatus(meshM, ZeroTls, finalStatus(meshM, drStatus, paStatus)))

(* C16 as stated: MeshMtlsStatus returns the pair (mode of the first         *)
(* DestinationRule with host exactly "*.local", mode of the first            *)
(* selector-less PeerAuthentication) unchanged, and its OverallStatus is     *)
(* OverallMtlsStatus({}, finalStatus(drStatus, paStatus)).                   *)
C16_RawPairOfFirsts ==
    pc \in {"start", "done"} =>
        meshStatus = C16_Mesh(C14_FirstOnHost(meshM.DestinationRules, "*.local"),
                              C16_FirstSelectorless(meshM.PeerAuthentications))

(* C16 amended: MeshMtlsStatus returns the pair (mode of the first           *)
(* DestinationRule with host exactly "*.local" that declares TLS settings,   *)
(* mode of the first selector-less PeerAuthentication that has an mtls       *)
(* block) unchanged, and its OverallStatus is                                *)
(* OverallMtlsStatus({}, finalStatus(drStatus, paStatus)).                   *)
C16_RawPairOfFirstModes ==
    pc \in {"start", "done"} =>
        meshStatus = C16_Mesh(C14_FirstModeOnHost(meshM.DestinationRules, "*.local"),
                              C15_FirstPolicyMode(meshM.PeerAuthentications))

C16_Witness ==
    /\ pc = "done"
    /\ meshM.AutoMtlsEnabled
    /\ meshM.DestinationRules =
           <<DestinationRule("bookinfo", "*.bookinfo.svc.cluster.local", "DISABLE"),
             DestinationRule("bookinfo", "*.local", "ISTIO_MUTUAL")>>
    /\ meshM.PeerAuthentications = <<PeerAuthentication(TRUE, AppReviews, "DISABLE"),
                                     PeerAuthentication(FALSE, {}, "STRICT")>>
    /\ meshStatus = TlsStatus("ISTIO_MUTUAL", "STRICT", MTLSEnabled)

(* C17: every resolution method returns one of ENABLED, PARTIALLY_ENABLED,   *)
(* NOT_ENABLED, DISABLED: WorkloadMtlsStatus, the OverallStatus of           *)
(* NamespaceMtlsStatus and of MeshMtlsStatus, and OverallMtlsStatus on the   *)
(* statuses those methods produce (paired with each other or with any other  *)
(* status), for every input and both flags.                                  *)
C17_OutputDomain ==
    /\ pc \in {"namespace", "mesh", "start"} => result \in Statuses
    /\ pc \in {"mesh", "start", "done"} => nsStatus.OverallStatus \in Statuses
    /\ pc \in {"start", "done"} => meshStatus.OverallStatus \in Statuses
    /\ pc = "done" =>
          /\ result \in Statuses
          /\ \A t \in TlsStatusValues :
                /\ OverallMtlsStatus(m, nsStatus, t) \in Statuses
                /\ OverallMtlsStatus(m, t, meshStatus) \in Statuses

C17_Witness ==
    /\ pc = "done"
    /\ Len(m.PeerAuthentications) = 2
    /\ m.PeerAuthentications[2].Mtls = "PERMISSIVE"
    /\ Len(m.DestinationRules) = 3
    /\ nsStatus.OverallStatus = MTLSPartiallyEnabled
    /\ meshStatus.OverallStatus = MTLSDisabled
    /\ result = MTLSPartiallyEnabled

(* the positions of the services whose spellings include this host *)
C18_Spelled(host) == {i \in 1..Len(services) : host \in Spellings(services[i], conf)}

(* C18: the three spellings of every service handed to NewKubeServiceHosts   *)
(* resolve to the same entry: HasHost is true for all three and              *)
(* IsValidForNamespace gives the same answer for all three, for every viewer *)
(* namespace, whatever other services are in the list and in whatever order. *)
C18_SpellingsShareEntry ==
    pc \in {"built", "asked"} =>
        /\ \A i \in 1..Len(services) :
              \A h1 \in Spellings(services[i], conf), h2 \in Spellings(services[i], conf) :
                  /\ HasHost(hosts, h1)
                  /\ hosts.entries[h1] = hosts.entries[h2]
                  /\ \A viewer \in ViewerNamespaces :
                        IsValidForNamespace(hosts, h1, viewer)
                            = IsValidForNamespace(hosts, h2, viewer)
        /\ (pc = "asked" /\ C18_Spelled(query.host) # {}) =>
              \A i \in C18_Spelled(query.host) :
                  \A h \in Spellings(services[i], conf) :
                      IF query.fn = "HasHost"
                      THEN query.answer /\ HasHost(hosts, h)
                      ELSE query.answer = IsValidForNamespace(hosts, h, query.viewer)

C18_Witness ==
    /\ pc = "asked"
    /\ services = <<AnnotatedService("reviews", "bookinfo", TRUE, <<"~">>),
                    AnnotatedService("reviews", "bookinfo", TRUE, <<".">>)>>
    /\ query = [fn |-> "IsValidForNamespace", host |-> "reviews.bookinfo",
                viewer |-> "bookinfo", answer |-> TRUE]

(* no two services of the list have the same name and namespace *)
C19_Distinct ==
    \A i \in 1..Len(services), j \in 1..Len(services) :
        (services[i].Name = services[j].Name /\ services[i].Namespace = services[j].Namespace)
            => i = j

C19_AllSpellings == UNION {Spellings(services[i], conf) : i \in 1..Len(services)}

C20_fqdn(svc, cf) == svc.Name \o "." \o svc.Namespace \o "." \o cf.IstioIdentityDomain

C20_common(svc) ==
    {svc.Name \o "." \o svc.Namespace \o ".svc", svc.Name \o "." \o svc.Namespace}

C21_Hidden == [i \in 1..Len(services) |->
                  AnnotatedService(services[i].Name, services[i].Namespace, TRUE, <<"~">>)]

(* C21: IsValidForNamespace is false for every host that is not a registered *)
(* key, for every viewer, so IsValidForNamespace implies HasHost; and        *)
(* HasHost does not depend on visibility: the same hosts are registered when *)
(* every service is exported to no namespace ("~").                          *)
C21_ValidImpliesRegistered ==
    pc \in {"built", "asked"} =>
        /\ \A host \in QueryHosts, viewer \in ViewerNamespaces :
              /\ host \notin DOMAIN hosts.entries => ~IsValidForNamespace(hosts, host, viewer)
              /\ IsValidForNamespace(hosts, host, viewer) => HasHost(hosts, host)
        /\ LET hidden == NewKubeServiceHosts(C21_Hidden, conf, defaultExportTo)
           IN  \A host \in QueryHosts :
                   /\ HasHost(hidden, host) = HasHost(hosts, host)
                   /\ \A viewer \in ViewerNamespaces :
                         ~IsValidForNamespace(hidden, host, viewer)
        /\ (pc = "asked" /\ query.fn = "IsValidForNamespace" /\ query.answer)
              => HasHost(hosts, query.host)
        /\ (pc = "asked" /\ query.fn = "HasHost")
              => (query.answer <=> query.host \in DOMAIN hosts.entries)

C21_Witness ==
    /\ pc = "asked"
    /\ services = <<AnnotatedService("reviews", "bookinfo", TRUE, <<"~">>)>>
    /\ query = [fn |-> "HasHost", host |-> "reviews.bookinfo.svc", viewer |-> "",
                answer |-> TRUE]
    /\ \A viewer \in ViewerNamespaces :
          ~IsValidForNamespace(hosts, "reviews.bookinfo.svc", viewer)

(* the tokens a list holds *)
C22_Tokens(list) == {list[i] : i \in 1..Len(list)}

(* C22: IsExportedTo is true iff the list is empty, or holds "*", or holds   *)
(* "." and resourceNs = viewerNs, or holds a literal other than "*", ".",    *)
(* "~" equal to viewerNs; "~" never contributes a match.  Hence the empty    *)
(* list and ["*"] are visible from every namespace, ["."] only from the      *)
(* resource's own, and ["~"] from none.                                      *)
C22_VisibleIff ==
    pc = "exported" =>
        /\ exported <=>
              \/ Len(exportList) = 0
              \/ "*" \in C22_Tokens(exportList)
              \/ "." \in C22_Tokens(exportList) /\ resourceNs = viewerNs
              \/ viewerNs \in C22_Tokens(exportList) \ {"*", ".", "~"}
        /\ exportList \in {<<>>, <<"*">>} => exported
        /\ exportList = <<".">> => (exported <=> resourceNs = viewerNs)
        /\ exportList = <<"~">> => ~exported

C22_Witness ==
    /\ pc = "exported"
    /\ exportList = <<"~", ".", "other-ns">>
    /\ resourceNs = "bookinfo"
    /\ viewerNs = "other-ns"
    /\ exported

(* C30: IsExportedTo depends only on the set of tokens of the list: a list   *)
(* with the same tokens (permuted, duplicated) gives the same result; for a  *)
(* non-empty list appending a token never turns visible into not visible;    *)
(* going from the empty list to ["~"] removes visibility.                    *)
C30_TokenSetOnly ==
    pc = "exported" =>
        /\ \A other \in SeqsUpTo(ExportTokens, MaxExportLen) :
              C22_Tokens(other) = C22_Tokens(exportList)
                  => IsExportedTo(other, resourceNs, viewerNs) = exported
        /\ (exportList # <<>> /\ exported) =>
              \A token \in ExportTokens :
                  IsExportedTo(Append(exportList, token), resourceNs, viewerNs)
        /\ exportList = <<>> =>
              (exported /\ ~IsExportedTo(<<"~">>, resourceNs, viewerNs))

C30_Witness ==
    /\ pc = "exported"
    /\ exportList = <<".", "~", ".">>
    /\ resourceNs = "bookinfo"
    /\ viewerNs = "other-ns"
    /\ ~exported
    /\ IsExportedTo(<<".", "~", ".", "other-ns">>, resourceNs, viewerNs)

(* the positions of the commas of an annotation value, with both ends *)
C23_Cuts(value) == {0, Len(value) + 1} \cup {i \in 1..Len(value) : value[i] = ","}

(* the segments of the value: what lies between two neighbouring cuts *)
C23_Segments(value) ==
    {<<a, b>> \in C23_Cuts(value) \X C23_Cuts(value) :
        a < b /\ \A c \in C23_Cuts(value) : ~(a < c /\ c < b)}

(* the positions of a segment that hold something other than white space *)
C23_Ink(value, seg) == {i \in (seg[1] + 1)..(seg[2] - 1) : value[i] # " "}

(* the smallest and the largest of a non-empty set of positions *)
C23_First(set) == CHOOSE i \in set : \A j \in set : i <= j
C23_Last(set) == CHOOSE i \in set : \A j \in set : j <= i

(* a segment trimmed: from its first to its last non-blank position *)
C23_Trimmed(value, seg) ==
    Spell(SubSeq(value, C23_First(C23_Ink(value, seg)), C23_Last(C23_Ink(value, seg))))

(* the comma-separated value, trimmed, with the empty segments dropped: the  *)
(* n-th entry is the n-th segment that holds a non-blank position            *)
C23_Kept(value) == {seg \in C23_Segments(value) : C23_Ink(value, seg) # {}}

C23_Effective(value) ==
    [n \in 1..Cardinality(C23_Kept(value)) |->
        C23_Trimmed(value,
            CHOOSE seg \in C23_Kept(value) :
                Cardinality({t \in C23_Kept(value) : t[1] <= seg[1]}) = n)]

(* the entry NewKubeServiceHosts stored for the one service *)
C23_Entry == hosts.heap[hosts.entries["reviews.bookinfo"]]

(* C23: a service's own exportTo annotation always overrides the mesh-wide   *)
(* default: when the key is present the list is its comma-separated value,   *)
(* trimmed, empty segments dropped, whatever the default; an empty or        *)
(* white-space-only annotation gives the empty list and visibility from      *)
(* every namespace; without the annotation the default applies, and with     *)
(* neither the service is visible from every namespace.                      *)
C23_AnnotationOverridesDefault ==
    pc \in {"built", "asked"} =>
        LET svc == services[1]
            visibleEverywhere ==
                \A viewer \in ViewerNamespaces :
                    IsValidForNamespace(hosts, "reviews.bookinfo", viewer)
        IN  /\ svc.HasExportTo => C23_Entry.exportTo = C23_Effective(svc.ExportTo)
            /\ (svc.HasExportTo /\ \A i \in 1..Len(svc.ExportTo) : svc.ExportTo[i] = " ")
                   => (C23_Entry.exportTo = <<>> /\ visibleEverywhere)
            /\ ~svc.HasExportTo => C23_Entry.exportTo = defaultExportTo
            /\ (~svc.HasExportTo /\ defaultExportTo = <<>>) => visibleEverywhere
            /\ (pc = "asked" /\ query.fn = "IsValidForNamespace"
                   /\ HasHost(hosts, query.host))
                   => query.answer =
                        IsExportedTo(IF svc.HasExportTo THEN C23_Effective(svc.ExportTo)
                                     ELSE defaultExportTo,
                                     svc.Namespace, query.viewer)

C23_Witness ==
    /\ pc = "asked"
    /\ services[1].HasExportTo
    /\ services[1].ExportTo = <<" ", " ">>
    /\ defaultExportTo = <<".">>
    /\ query.fn = "IsValidForNamespace"
    /\ query.host = "reviews.bookinfo"
    /\ query.viewer = "other-ns"
    /\ query.answer

(* the lower-cased protocol token of the call *)
C24_Token == ToLower(protocol)

(* C24: MatchPortNameRule is always true for protocol tcp or udp in any      *)
(* letter case; for any other protocol it is true iff portName is exactly    *)
(* the lower-cased protocol token, or that token followed by a dash and a    *)
(* non-empty suffix; the token followed by a lone dash, or by any character  *)
(* other than a dash, is invalid.                                            *)
C24_TokenOrDashSuffix ==
    pc = "validated" =>
        IF C24_Token \in {<<"t", "c", "p">>, <<"u", "d", "p">>} THEN valid
        ELSE valid <=>
               \/ portName = C24_Token
               \/ /\ Len(portName) >= Len(C24_Token) + 2
                  /\ SubSeq(portName, 1, Len(C24_Token) + 1) = C24_Token \o <<"-">>

(* C25: mapPortToVirtualServiceProtocol is total and returns one of http,    *)
(* tls, tcp: HTTP, HTTP2 and GRPC give http; HTTPS and TLS give tls; every   *)
(* other string, the empty string and lower-case spellings included, gives   *)
(* tcp.                                                                      *)
C25_ThreeClasses ==
    pc = "mapped" =>
        /\ vsProtocol \in {"http", "tls", "tcp"}
        /\ vsProtocol = "http" <=> Spell(protocol) \in {"HTTP", "HTTP2", "GRPC"}
        /\ vsProtocol = "tls" <=> Spell(protocol) \in {"HTTPS", "TLS"}
        /\ Spell(protocol) \in {"", "http", "tls", "grpc", "Http", "tcp", "UDP"}
              => vsProtocol = "tcp"

C25_Witness ==
    /\ pc = "mapped"
    /\ Spell(protocol) = "http"
    /\ vsProtocol = "tcp"

(* C26: the namespace's own PeerAuthentication mode is never contradicted by *)
(* the mesh: with nsStatus = NamespaceMtlsStatus and any meshStatus, if the   *)
(* namespace's paStatus is DISABLE OverallMtlsStatus never returns ENABLED,  *)
(* and if it is STRICT it never returns DISABLED, for every DestinationRule  *)
(* mode of the namespace and of the mesh and both flags.                     *)
C26_NamespaceModeKept ==
    /\ pc = "done" =>
          /\ nsStatus.PeerAuthenticationStatus = "DISABLE" => result # MTLSEnabled
          /\ nsStatus.PeerAuthenticationStatus = "STRICT" => result # MTLSDisabled
    /\ pc # "namespace" =>
          \A mesh \in TlsStatusValues :
              /\ nsStatus.PeerAuthenticationStatus = "DISABLE"
                    => OverallMtlsStatus(m, nsStatus, mesh) # MTLSEnabled
              /\ nsStatus.PeerAuthenticationStatus = "STRICT"
                    => OverallMtlsStatus(m, nsStatus, mesh) # MTLSDisabled

C26_Witness ==
    /\ pc = "done"
    /\ nsStatus = TlsStatus("", "DISABLE", MTLSPartiallyEnabled)
    /\ meshStatus = TlsStatus("ISTIO_MUTUAL", "STRICT", MTLSEnabled)
    /\ result = MTLSPartiallyEnabled

(* C27: mesh normalisation is idempotent and is what a policy-free namespace *)
(* reports: for M = MeshMtlsStatus() and nsStatus the zero TlsStatus or      *)
(* finalStatus("", ""), OverallMtlsStatus(nsStatus, M) = M.OverallStatus,    *)
(* for every mesh configuration and both flags.                              *)
C27_NormalisedOnce ==
    /\ pc \in {"start", "running", "done"} =>
          /\ OverallMtlsStatus(m, ZeroTls, meshStatus) = meshStatus.OverallStatus
          /\ OverallMtlsStatus(m, finalStatus(m, "", ""), meshStatus)
                = meshStatus.OverallStatus
    /\ (pc = "done" /\ nsM.PeerAuthentications = <<>> /\ nsM.DestinationRules = <<>>) =>
          /\ nsStatus = finalStatus(m, "", "")
          /\ result = meshStatus.OverallStatus

C27_Witness ==
    /\ pc = "done"
    /\ m.AutoMtlsEnabled
    /\ nsM.PeerAuthentications = <<>> /\ nsM.DestinationRules = <<>>
    /\ nsStatus = TlsStatus("", "", MTLSNotEnabled)
    /\ meshStatus = TlsStatus("ISTIO_MUTUAL", "", MTLSEnabled)
    /\ result = MTLSEnabled

(* the DestinationRule mode of each scope, and the effective one *)
C28_nsDr == hasDesinationRuleEnablingNamespacemTLS(nsM, namespace, conf)

C28_meshDr == hasDestinationRuleMeshTLSDefinition(meshM)

C28_effectiveDr == IF C28_nsDr # "" THEN C28_nsDr ELSE C28_meshDr

(* a fully configured pair: a mutual DestinationRule mode and a              *)
(* PeerAuthentication mode that is STRICT, or PERMISSIVE with allowPermissive *)
C28_Secured(dr, pa) ==
    /\ dr \in {"ISTIO_MUTUAL", "MUTUAL"}
    /\ pa = "STRICT" \/ (pa = "PERMISSIVE" /\ m.AllowPermissive)

(* C28 as stated: when autoMtlsEnabled is false, NamespaceMtlsStatus,        *)
(* MeshMtlsStatus and OverallMtlsStatus of the two return ENABLED only if    *)
(* the effective DestinationRule mode (the namespace's when non-empty, else  *)
(* the mesh's) is ISTIO_MUTUAL or MUTUAL and the effective PeerAuthentication *)
(* mode is STRICT, or PERMISSIVE with allowPermissive.                       *)
C28_EnabledOnlyIfSecured ==
    (pc = "done" /\ ~m.AutoMtlsEnabled) =>
        /\ nsStatus.OverallStatus = MTLSEnabled => C28_Secured(C28_effectiveDr, C7_effectivePa)
        /\ meshStatus.OverallStatus = MTLSEnabled => C28_Secured(C28_effectiveDr, C7_effectivePa)
        /\ result = MTLSEnabled => C28_Secured(C28_effectiveDr, C7_effectivePa)

(* C28 amended: when autoMtlsEnabled is false, NamespaceMtlsStatus returns   *)
(* ENABLED only if the namespace's own pair of modes is fully configured,    *)
(* MeshMtlsStatus only if the mesh's own pair is, and OverallMtlsStatus of   *)
(* the two only if the effective pair is.                                    *)
C28_EnabledOnlyIfSecuredPerScope ==
    (pc = "done" /\ ~m.AutoMtlsEnabled) =>
        /\ nsStatus.OverallStatus = MTLSEnabled => C28_Secured(C28_nsDr, C7_nsPa)
        /\ meshStatus.OverallStatus = MTLSEnabled => C28_Secured(C28_meshDr, C7_meshPa)
        /\ result = MTLSEnabled => C28_Secured(C28_effectiveDr, C7_effectivePa)

C28_Witness ==
    /\ pc = "done"
    /\ ~m.AutoMtlsEnabled
    /\ nsStatus = TlsStatus("DISABLE", "", MTLSPartiallyEnabled)
    /\ meshStatus = TlsStatus("ISTIO_MUTUAL", "STRICT", MTLSEnabled)
    /\ result = MTLSPartiallyEnabled

(* C29: WorkloadMtlsStatus never returns PARTIALLY_ENABLED: for every list   *)
(* of PeerAuthentications, DestinationRules and Services and every workload  *)
(* label set, the result is one of ENABLED, DISABLED, NOT_ENABLED.           *)
C29_NeverPartial ==
    pc = "done" =>
        /\ result \in {MTLSEnabled, MTLSDisabled, MTLSNotEnabled}
        /\ result = WorkloadMtlsStatus(m, namespace, conf)

C29_Witness ==
    /\ pc = "done"
    /\ m.PeerAuthentications = <<PeerAuthentication(TRUE, AppReviews, "PERMISSIVE")>>
    /\ Len(m.DestinationRules) = 1
    /\ m.DestinationRules[1].Tls = "SIMPLE"
    /\ Len(m.Services) = 1
    /\ result = MTLSNotEnabled

=============================================================================
